---- MODULE Spec2Model ----
(***************************************************************************)
(* A model of the asset server of polyfea/spa-base (cmd/spa_d): the        *)
(* request handler, the multi-root file lookup, the negotiation of         *)
(* precompressed variants, the import-fallback cache, the SPA fallback and *)
(* the response-header policy.                                             *)
(*                                                                         *)
(* Strings (paths, header names, header values that the code inspects) are *)
(* sequences of one-character strings, so that the prefix, suffix and      *)
(* canonicalisation operations of the code are computed, not assumed.      *)
(***************************************************************************)
EXTENDS Naturals, Sequences, FiniteSets, TLC

----------------------------------------------------------------------------
(* Strings *)

\* strings.HasPrefix
HasPrefix(s, p) == Len(p) <= Len(s) /\ SubSeq(s, 1, Len(p)) = p

\* strings.HasSuffix
HasSuffix(s, p) == Len(p) <= Len(s) /\ SubSeq(s, Len(s) - Len(p) + 1, Len(s)) = p

\* s[n:] of Go, n a byte offset
DropFirst(s, n) == SubSeq(s, n + 1, Len(s))

Range(f) == {f[i] : i \in DOMAIN f}

\* all orders in which the elements of a finite set can be visited
Perms(S) == {q \in [1..Cardinality(S) -> S] : Range(q) = S}

LowerLetters ==
  <<"a","b","c","d","e","f","g","h","i","j","k","l","m",
    "n","o","p","q","r","s","t","u","v","w","x","y","z">>
UpperLetters ==
  <<"A","B","C","D","E","F","G","H","I","J","K","L","M",
    "N","O","P","Q","R","S","T","U","V","W","X","Y","Z">>

IndexIn(letters, c) == CHOOSE i \in DOMAIN letters : letters[i] = c

ToUpper(c) == IF c \in Range(LowerLetters) THEN UpperLetters[IndexIn(LowerLetters, c)] ELSE c
ToLower(c) == IF c \in Range(UpperLetters) THEN LowerLetters[IndexIn(UpperLetters, c)] ELSE c

\* textproto.CanonicalMIMEHeaderKey, as http.Header.Set applies it to a key:
\* the first letter and every letter after a hyphen in upper case, the rest
\* in lower case.
CanonicalHeaderKey(k) ==
  [i \in DOMAIN k |-> IF i = 1 \/ k[i - 1] = "-" THEN ToUpper(k[i]) ELSE ToLower(k[i])]

\* the segments of a path between its slashes
RECURSIVE SplitSlash(_)
SplitSlash(s) ==
  IF \A i \in DOMAIN s : s[i] # "/"
  THEN <<s>>
  ELSE LET i == CHOOSE j \in DOMAIN s : s[j] = "/" /\ \A k \in 1..(j - 1) : s[k] # "/"
       IN  <<SubSeq(s, 1, i - 1)>> \o SplitSlash(DropFirst(s, i))

\* path.Clean of a rooted path, on its segments: empty and "." segments are
\* dropped, ".." removes the segment before it and is dropped at the root.
RECURSIVE CleanSegs(_, _)
CleanSegs(segs, out) ==
  IF segs = <<>> THEN out
  ELSE LET h == Head(segs)
       IN  IF h = <<>> \/ h = <<".">> THEN CleanSegs(Tail(segs), out)
           ELSE IF h = <<".", ".">>
                THEN CleanSegs(Tail(segs),
                               IF out = <<>> THEN out ELSE SubSeq(out, 1, Len(out) - 1))
                ELSE CleanSegs(Tail(segs), Append(out, h))

RECURSIVE JoinSegs(_)
JoinSegs(segs) ==
  IF segs = <<>> THEN <<>> ELSE <<"/">> \o Head(segs) \o JoinSegs(Tail(segs))

\* a rooted path from its clean segments
Rooted(segs) == IF segs = <<>> THEN <<"/">> ELSE JoinSegs(segs)

\* path.Join(rootDir, resourcePath) for an absolute rootDir:
\* path.Clean(rootDir + "/" + resourcePath)
PathJoin(rootDir, resourcePath) ==
  Rooted(CleanSegs(SplitSlash(rootDir \o <<"/">> \o resourcePath), <<>>))

\* filepath.Ext: the suffix beginning at the final dot in the final
\* slash-separated element of the path, empty if there is no dot
FileExt(p) ==
  LET dots == {i \in DOMAIN p : p[i] = "." /\ \A k \in (i + 1)..Len(p) : p[k] \notin {".", "/"}}
  IN  IF dots = {} THEN <<>>
      ELSE SubSeq(p, CHOOSE i \in dots : TRUE, Len(p))

\* regexp.MatchString for the patterns the configurations of this model use:
\* literal characters, an escaped character (backslash, character), "." for
\* any character, "^" first and "$" last as anchors. Unanchored patterns
\* match anywhere in the string.
RECURSIVE RegexAtoms(_)
RegexAtoms(rx) ==
  IF rx = <<>> THEN <<>>
  ELSE IF rx[1] = "\\" /\ Len(rx) >= 2
       THEN <<[any |-> FALSE, ch |-> rx[2]]>> \o RegexAtoms(DropFirst(rx, 2))
       ELSE IF rx[1] = "."
            THEN <<[any |-> TRUE, ch |-> "."]>> \o RegexAtoms(DropFirst(rx, 1))
            ELSE <<[any |-> FALSE, ch |-> rx[1]]>> \o RegexAtoms(DropFirst(rx, 1))

RegexFromStart(rx) == rx # <<>> /\ rx[1] = "^"
RegexToEnd(rx) ==
  rx # <<>> /\ rx[Len(rx)] = "$" /\ ~(Len(rx) >= 2 /\ rx[Len(rx) - 1] = "\\")
RegexDropStart(rx) == IF RegexFromStart(rx) THEN DropFirst(rx, 1) ELSE rx
RegexDropEnd(rx) == IF RegexToEnd(rx) THEN SubSeq(rx, 1, Len(rx) - 1) ELSE rx

MatchAtoms(atoms, s, fromStart, toEnd) ==
  \E start \in 1..(Len(s) + 1) :
    /\ start + Len(atoms) - 1 <= Len(s)
    /\ fromStart => start = 1
    /\ toEnd => start + Len(atoms) - 1 = Len(s)
    /\ \A j \in 1..Len(atoms) : atoms[j].any \/ atoms[j].ch = s[start + j - 1]

RegexMatch(rx, s) ==
  MatchAtoms(RegexAtoms(RegexDropEnd(RegexDropStart(rx))), s,
             RegexFromStart(rx), RegexToEnd(RegexDropStart(rx)))

----------------------------------------------------------------------------
(* String constants of serve.go *)

s_br        == <<"b","r">>
s_gzip      == <<"g","z","i","p">>
s_gz        == <<"g","z">>
s_dot       == <<".">>
s_slash     == <<"/">>
s_index     == <<"i","n","d","e","x",".","h","t","m","l">>
s_slashIndex == <<"/">> \o s_index
s_mjs       == <<".","m","j","s">>
s_js        == <<".","j","s">>
s_cjs       == <<".","c","j","s">>
s_html      == <<".","h","t","m","l">>
s_json      == <<".","j","s","o","n">>
s_svg       == <<".","s","v","g">>
s_disable   == <<"d","i","s","a","b","l","e">>
s_textHtml  == <<"t","e","x","t","/","h","t","m","l">>
h_ContentEncoding == <<"C","o","n","t","e","n","t","-","E","n","c","o","d","i","n","g">>
h_ContentType     == <<"C","o","n","t","e","n","t","-","T","y","p","e">>
h_CacheControl    == <<"C","a","c","h","e","-","C","o","n","t","r","o","l">>
h_XContentTypeOptions ==
  <<"X","-","C","o","n","t","e","n","t","-","T","y","p","e","-","O","p","t","i","o","n","s">>

\* the encoding tokens, in the order findAndServeEncoded appends them
EncodingToken == [br |-> s_br, gzip |-> s_gzip]
\* ext := encoding; if encoding == "gzip" { ext = "gz" }
EncodingExt   == [br |-> s_br, gzip |-> s_gz]

\* mime.TypeByExtension after init() has registered .js, .mjs, .cjs and .svg;
\* "" for an extension the table does not hold
TypeByExtension(ext) ==
  IF ext \in {s_js, s_mjs, s_cjs} THEN "application/javascript"
  ELSE IF ext = s_svg  THEN "image/svg+xml"
  ELSE IF ext = s_html THEN "text/html; charset=utf-8"
  ELSE IF ext = s_json THEN "application/json"
  ELSE ""

----------------------------------------------------------------------------
(* The file system.  fs maps an absolute, clean path to what os.Open and   *)
(* Stat report for it:                                                     *)
(*   "file"    a regular file                                              *)
(*   "dir"     a directory                                                 *)
(*   "openerr" os.Open fails with an error other than not-exist            *)
(*   "staterr" os.Open succeeds and Stat on the handle fails               *)
(*   "flaky"   a regular file whose handle fails the second Stat           *)
(* A path outside DOMAIN fs does not exist. The content of a file is       *)
(* identified by its absolute path.                                        *)
(* findFile reports, next to what the code returns, whether it returned    *)
(* with a handle it opened and did not close (unclosed).                   *)

FileKinds == {"file", "dir", "openerr", "staterr", "flaky"}

KindAt(files, p) == IF p \in DOMAIN files THEN files[p] ELSE "none"

\* http.DetectContentType on the first bytes of a file; it never returns "".
DetectContentType(file) == "text/plain; charset=utf-8"

NoFile == [ok |-> FALSE, err |-> FALSE, file |-> <<>>, root |-> 0, unclosed |-> FALSE]

\* server.findFile, from root number i on: os.Open and Stat on filePath
RECURSIVE FindFileFrom(_, _, _, _)
\* a variant of OpenAt that is not the code: a directory ends the search
\* instead of passing it on to the next root
OpenAtDirStops(c, files, resourcePath, i, filePath) ==
  IF KindAt(files, filePath) \in {"file", "flaky"}
  THEN [ok |-> TRUE, err |-> FALSE, file |-> filePath, root |-> i, unclosed |-> FALSE]
  ELSE IF KindAt(files, filePath) \in {"openerr", "staterr"}
       THEN [ok |-> FALSE, err |-> TRUE, file |-> <<>>, root |-> i,
             unclosed |-> KindAt(files, filePath) = "staterr"]
       ELSE IF KindAt(files, filePath) = "dir"
            THEN NoFile
            ELSE FindFileFrom(c, files, resourcePath, i + 1)

OpenAt(c, files, resourcePath, i, filePath) ==
  IF KindAt(files, filePath) \in {"file", "flaky"}
  THEN [ok |-> TRUE, err |-> FALSE, file |-> filePath, root |-> i, unclosed |-> FALSE]
  ELSE IF KindAt(files, filePath) \in {"openerr", "staterr"}
       THEN [ok |-> FALSE, err |-> TRUE, file |-> <<>>, root |-> i,
             unclosed |-> KindAt(files, filePath) = "staterr"]
       ELSE FindFileFrom(c, files, resourcePath, i + 1)

FindFileFrom(c, files, resourcePath, i) ==
  IF i > Len(c.RootDirs) THEN NoFile
  ELSE OpenAt(c, files, resourcePath, i, PathJoin(c.RootDirs[i], resourcePath))

findFile(c, files, resourcePath) == FindFileFrom(c, files, resourcePath, 1)

\* the second half of server.resolveMimeType: org is what findFile returned
\* for the resource itself; Must(err) panics
SniffMimeType(org) ==
  IF org.err THEN [ctype |-> "", panic |-> TRUE]
  ELSE IF org.ok THEN [ctype |-> DetectContentType(org.file), panic |-> FALSE]
  ELSE [ctype |-> "", panic |-> FALSE]

\* server.resolveMimeType: the type of the extension, else the type sniffed
\* from the file found at resourcePath, else ""
resolveMimeType(c, files, resourcePath) ==
  IF TypeByExtension(FileExt(resourcePath)) # ""
  THEN [ctype |-> TypeByExtension(FileExt(resourcePath)), panic |-> FALSE]
  ELSE SniffMimeType(findFile(c, files, resourcePath))

\* http.Header.Set on the canonical key k
SetCanonical(hdr, k, value) ==
  [x \in (DOMAIN hdr) \cup {k} |-> IF x = k THEN value ELSE hdr[x]]

\* http.Header.Set
HeaderSet(hdr, key, value) == SetCanonical(hdr, CanonicalHeaderKey(key), value)

RECURSIVE SetAll(_, _)
SetAll(hdr, kvs) ==
  IF kvs = <<>> THEN hdr ELSE SetAll(HeaderSet(hdr, kvs[1][1], kvs[1][2]), Tail(kvs))

\* for rx, headers := range HeadersPerPathRegex: the rules in the order rules
RECURSIVE ApplyRules(_, _, _)
\* a variant of ApplyRules that is not the code: every rule is applied,
\* whether its pattern matches or not
ApplyRulesUnmatched(hdr, rules, resourcePath) ==
  IF rules = <<>> THEN hdr
  ELSE ApplyRules(SetAll(hdr, rules[1].headers), Tail(rules), resourcePath)

ApplyRules(hdr, rules, resourcePath) ==
  IF rules = <<>> THEN hdr
  ELSE ApplyRules(IF RegexMatch(rules[1].rx, resourcePath)
                  THEN SetAll(hdr, rules[1].headers) ELSE hdr,
                  Tail(rules), resourcePath)

\* a variant of MergeGlobal that is not the code: the global headers are
\* left out
MergeGlobalDropped(hdr, kvs) == hdr

\* for key, value := range Headers: if _, ok := w.Header()[key]; !ok { Set }
RECURSIVE MergeGlobal(_, _)
MergeGlobal(hdr, kvs) ==
  IF kvs = <<>> THEN hdr
  ELSE MergeGlobal(IF kvs[1][1] \in DOMAIN hdr THEN hdr
                   ELSE HeaderSet(hdr, kvs[1][1], kvs[1][2]),
                   Tail(kvs))

\* a variant of DefaultCacheControl that is not the code: the default
\* replaces a Cache-Control that is already set
DefaultCacheControlOverrides(hdr, resourcePath) ==
  IF resourcePath # s_slashIndex
  THEN HeaderSet(hdr, h_CacheControl, "public, max-age=31536000, immutable")
  ELSE HeaderSet(hdr, h_CacheControl, "no-cache")

\* the default cache control of server.applyHeaders
DefaultCacheControl(hdr, resourcePath) ==
  IF h_CacheControl \in DOMAIN hdr THEN hdr
  ELSE IF resourcePath # s_slashIndex
       THEN HeaderSet(hdr, h_CacheControl, "public, max-age=31536000, immutable")
       ELSE HeaderSet(hdr, h_CacheControl, "no-cache")

\* server.applyHeaders. Go leaves the iteration order of a map open: ord.rules
\* and ord.global are the orders this call visits the two maps in.
applyHeaders(hdr, resourcePath, ord) ==
  DefaultCacheControl(
    MergeGlobal(ApplyRules(hdr, ord.rules, resourcePath), ord.global),
    resourcePath)

\* the orders in which the headers of one rule can be visited
RuleOrders(r) == {[rx |-> r.rx, headers |-> q] : q \in Perms(r.headers)}

\* the sequence rs of rules, with each rule's headers in each of its orders
RECURSIVE ExpandRules(_)
ExpandRules(rs) ==
  IF rs = <<>> THEN {<<>>}
  ELSE {<<h>> \o t : h \in RuleOrders(rs[1]), t \in ExpandRules(Tail(rs))}

\* the orders in which one call of applyHeaders can visit the maps of c
HeaderOrders(c) ==
  {[rules |-> rr, global |-> g] :
     rr \in UNION {ExpandRules(q) : q \in Perms(c.HeadersPerPathRegex)},
     g \in Perms(c.Headers)}

----------------------------------------------------------------------------
(* Serving.  A serve result says what one call did to the response:        *)
(*   found, err  the (bool, error) the call returns                        *)
(*   panic       the call panicked in Must                                 *)
(*   hdr         w.Header() after the call                                 *)
(*   writes      responses written by http.ServeContent in the call        *)
(*   name, body  the resource path given to http.ServeContent and the      *)
(*               absolute path of the file whose bytes it wrote            *)
(*   probes      the file-system calls of the request so far, in order:    *)
(*               path   the resource path handed to findFile (for "stat":  *)
(*                      the name of the file being served)                 *)
(*               kind   "sibling" a precompressed sibling, "file" the      *)
(*                      resource itself, "sniff" the lookup of             *)
(*                      resolveMimeType, "stat" the Stat of serveContent   *)
(*               failed the call failed with an error other than not-exist *)
(*               unclosed the call left a handle open that nobody closes   *)

Result(found, err, panic, hdr, writes, name, body, probes) ==
  [found |-> found, err |-> err, panic |-> panic, hdr |-> hdr,
   writes |-> writes, name |-> name, body |-> body, probes |-> probes]

Look(path, kind, f) ==
  [path |-> path, kind |-> kind, failed |-> f.err, unclosed |-> f.unclosed]

\* the Stat of serveContent failed: its handle is closed by the caller's defer
StatFailed == [err |-> TRUE, unclosed |-> FALSE]

Ended(res) == res.panic \/ res.found \/ res.err

\* server.serveContent: the headers, then Must(file.Stat()), then
\* http.ServeContent, which answers 200 with the bytes of file
serveContent(c, files, hdr, name, file, ord, probes) ==
  IF KindAt(files, file) = "flaky"
  THEN Result(FALSE, FALSE, TRUE, applyHeaders(hdr, name, ord), 0, <<>>, <<>>,
              Append(probes, Look(name, "stat", StatFailed)))
  ELSE Result(TRUE, FALSE, FALSE, applyHeaders(hdr, name, ord), 1, name, file, probes)

\* the findFile of resolveMimeType(resourcePath), if it makes one
MimeProbes(c, files, resourcePath) ==
  IF TypeByExtension(FileExt(resourcePath)) = ""
  THEN <<Look(resourcePath, "sniff", findFile(c, files, resourcePath))>>
  ELSE <<>>

\* ctype := srv.resolveMimeType(ctx, resourcePath)
\* w.Header().Set("Content-Type", ctype)
\* err := srv.serveContent(ctx, w, req, resourcePath, file)
serveTyped(c, files, hdr, resourcePath, file, m, ord, probes) ==
  IF m.panic THEN Result(FALSE, FALSE, TRUE, hdr, 0, <<>>, <<>>, probes)
  ELSE serveContent(c, files, HeaderSet(hdr, h_ContentType, m.ctype),
                    resourcePath, file, ord, probes)

\* server.findAndServe after its findFile returned f
serveFound(c, files, hdr, resourcePath, f, ord, probes) ==
  IF f.err THEN Result(FALSE, TRUE, FALSE, hdr, 0, <<>>, <<>>,
                       Append(probes, Look(resourcePath, "file", f)))
  ELSE IF ~f.ok THEN Result(FALSE, FALSE, FALSE, hdr, 0, <<>>, <<>>,
                            Append(probes, Look(resourcePath, "file", f)))
  ELSE serveTyped(c, files, hdr, resourcePath, f.file,
                  resolveMimeType(c, files, resourcePath), ord,
                  Append(probes, Look(resourcePath, "file", f))
                    \o MimeProbes(c, files, resourcePath))

\* server.findAndServe
findAndServe(c, files, hdr, resourcePath, ord, probes) ==
  serveFound(c, files, hdr, resourcePath, findFile(c, files, resourcePath), ord, probes)

\* slices.ContainsFunc(req.Header.Values("Accept-Encoding"),
\*                     func(enc) { return strings.HasPrefix(enc, encoding) })
Advertises(r, encoding) ==
  \E i \in DOMAIN r.acceptEncoding :
     HasPrefix(r.acceptEncoding[i], EncodingToken[encoding])

\* a variant of Encodings that is not the code: the disable switches are
\* ignored
EncodingsAll(c) == <<"br", "gzip">>

\* encodings of findAndServeEncoded
Encodings(c) ==
  (IF c.BrotliDisabled THEN <<>> ELSE <<"br">>) \o
  (IF c.GzipDisabled THEN <<>> ELSE <<"gzip">>)

\* a variant of serveSibling that is not the code: the sibling is served
\* without the Content-Encoding header
serveSiblingUnmarked(c, files, hdr, resourcePath, encoding, sibling, f, ord, probes) ==
  IF ~f.ok THEN Result(FALSE, FALSE, FALSE, hdr, 0, <<>>, <<>>,
                       Append(probes, Look(sibling, "sibling", f)))
  ELSE serveTyped(c, files, hdr, resourcePath, f.file,
                  resolveMimeType(c, files, resourcePath), ord,
                  Append(probes, Look(sibling, "sibling", f))
                    \o MimeProbes(c, files, resourcePath))

\* a variant of serveSibling that is not the code: a sibling is passed over
\* when the uncompressed file is in no root
serveSiblingNeedsTwin(c, files, hdr, resourcePath, encoding, sibling, f, ord, probes) ==
  IF ~f.ok \/ ~findFile(c, files, resourcePath).ok
  THEN Result(FALSE, FALSE, FALSE, hdr, 0, <<>>, <<>>,
              Append(probes, Look(sibling, "sibling", f)))
  ELSE serveTyped(c, files, HeaderSet(hdr, h_ContentEncoding, encoding),
                  resourcePath, f.file,
                  resolveMimeType(c, files, resourcePath), ord,
                  Append(probes, Look(sibling, "sibling", f))
                    \o MimeProbes(c, files, resourcePath))

\* the closure of findAndServeEncoded after its findFile returned f for the
\* sibling: the error of findFile is dropped (file, ok, _ := srv.findFile(...))
serveSibling(c, files, hdr, resourcePath, encoding, sibling, f, ord, probes) ==
  IF ~f.ok THEN Result(FALSE, FALSE, FALSE, hdr, 0, <<>>, <<>>,
                       Append(probes, Look(sibling, "sibling", f)))
  ELSE serveTyped(c, files, HeaderSet(hdr, h_ContentEncoding, encoding),
                  resourcePath, f.file,
                  resolveMimeType(c, files, resourcePath), ord,
                  Append(probes, Look(sibling, "sibling", f))
                    \o MimeProbes(c, files, resourcePath))

\* the closure of findAndServeEncoded for one advertised encoding
lookupEncoded(c, files, hdr, resourcePath, encoding, ord, probes) ==
  serveSibling(c, files, hdr, resourcePath, encoding,
               resourcePath \o s_dot \o EncodingExt[encoding],
               findFile(c, files, resourcePath \o s_dot \o EncodingExt[encoding]),
               ord, probes)

\* the loop of findAndServeEncoded over encs, then findAndServe
RECURSIVE EncodedFrom(_, _, _, _, _, _, _, _)
\* if found || err != nil { return found, err }, else the next encoding
nextEncoding(c, files, resourcePath, r, ord, encs, res) ==
  IF Ended(res) THEN res
  ELSE EncodedFrom(c, files, res.hdr, resourcePath, r, ord, encs, res.probes)

EncodedFrom(c, files, hdr, resourcePath, r, ord, encs, probes) ==
  IF encs = <<>> THEN findAndServe(c, files, hdr, resourcePath, ord, probes)
  ELSE IF ~Advertises(r, Head(encs))
       THEN EncodedFrom(c, files, hdr, resourcePath, r, ord, Tail(encs), probes)
       ELSE nextEncoding(c, files, resourcePath, r, ord, Tail(encs),
              lookupEncoded(c, files, hdr, resourcePath, Head(encs), ord, probes))

\* server.findAndServeEncoded
findAndServeEncoded(c, files, hdr, resourcePath, r, ord, probes) ==
  EncodedFrom(c, files, hdr, resourcePath, r, ord, Encodings(c), probes)

\* a variant of StripBaseURL that is not the code: a path outside the base
\* url is always taken as it is
StripBaseURLLenient(c, path) ==
  IF c.BaseURL # <<>>
  THEN IF HasPrefix(path, c.BaseURL)
       THEN [rejected |-> FALSE, resourcePath |-> DropFirst(path, Len(c.BaseURL))]
       ELSE IF path \o s_slash = c.BaseURL
            THEN [rejected |-> FALSE, resourcePath |-> <<>>]
            ELSE [rejected |-> FALSE, resourcePath |-> path]
  ELSE [rejected |-> FALSE, resourcePath |-> path]

\* the path normalisation of server.handler (strip base url): the resource
\* path, or "rejected" when the base url is missing
StripBaseURL(c, path) ==
  IF c.BaseURL # <<>>
  THEN IF HasPrefix(path, c.BaseURL)
       THEN [rejected |-> FALSE, resourcePath |-> DropFirst(path, Len(c.BaseURL))]
       ELSE IF path \o s_slash = c.BaseURL
            THEN [rejected |-> FALSE, resourcePath |-> <<>>]
            ELSE IF ~c.AllowSkipBaseUrl
                 THEN [rejected |-> TRUE, resourcePath |-> path]
                 ELSE [rejected |-> FALSE, resourcePath |-> path]
  ELSE [rejected |-> FALSE, resourcePath |-> path]

\* if resourcePath == "" { resourcePath = "index.html" }
IndexIfEmpty(n) ==
  IF ~n.rejected /\ n.resourcePath = <<>>
  THEN [rejected |-> FALSE, resourcePath |-> s_index]
  ELSE n

Normalize(c, path) == IndexIfEmpty(StripBaseURL(c, path))

\* variants of FallbackSkipped that are not the code: one that ignores
\* fallback-disabled, one that ignores the exclusion patterns, and one that
\* takes every Accept header without a text/html value for a refusal, an
\* empty first value included
FallbackSkippedWhenEnabled(c, r) ==
  \/ /\ r.accept # <<>> /\ Len(r.accept[1]) # 0
     /\ ~\E i \in DOMAIN r.accept : HasPrefix(r.accept[i], s_textHtml)
  \/ \E i \in DOMAIN c.NotFoundRegexs : RegexMatch(c.NotFoundRegexs[i], r.path)

FallbackSkippedNoExclusion(c, r) ==
  \/ c.FallbackDisabled
  \/ /\ r.accept # <<>> /\ Len(r.accept[1]) # 0
     /\ ~\E i \in DOMAIN r.accept : HasPrefix(r.accept[i], s_textHtml)

FallbackSkippedStrictAccept(c, r) ==
  \/ c.FallbackDisabled
  \/ /\ r.accept # <<>>
     /\ ~\E i \in DOMAIN r.accept : HasPrefix(r.accept[i], s_textHtml)
  \/ \E i \in DOMAIN c.NotFoundRegexs : RegexMatch(c.NotFoundRegexs[i], r.path)

\* the conditions under which server.fallback returns (false, nil) at once
FallbackSkipped(c, r) ==
  \/ c.FallbackDisabled
  \/ /\ r.accept # <<>> /\ Len(r.accept[1]) # 0
     /\ ~\E i \in DOMAIN r.accept : HasPrefix(r.accept[i], s_textHtml)
  \/ \E i \in DOMAIN c.NotFoundRegexs : RegexMatch(c.NotFoundRegexs[i], r.path)

\* the first condition of server.importFallback
\* a variant of ImportEligible that is not the code: a path that ends in a
\* module suffix is eligible too
ImportEligibleAnySuffix(c, resourcePath) ==
  ~HasPrefix(c.ImportFallbackRegexp, s_disable)

ImportEligible(c, resourcePath) ==
  /\ ~HasPrefix(c.ImportFallbackRegexp, s_disable)
  /\ ~HasSuffix(resourcePath, s_mjs)
  /\ ~HasSuffix(resourcePath, s_js)
  /\ ~HasSuffix(resourcePath, s_cjs)

\* the suffixes importFallback tries, in its order
ImportSuffixes == <<s_mjs, s_js, s_cjs>>

\* http.Error: the headers it sets
ErrorHeaders(hdr) ==
  HeaderSet(HeaderSet(hdr, h_ContentType, "text/plain; charset=utf-8"),
            h_XContentTypeOptions, "nosniff")

----------------------------------------------------------------------------
(* State *)

VARIABLES
  cfg,     \* the Config the server was started with (never changes)
  reqs,    \* the requests the clients of this run send
  churn,   \* the absolute paths of files that are deployed or removed while the server runs
  fs,      \* the file system under the roots
  cache,   \* importFallbackMap: resource path -> real path
  pc,      \* per handler goroutine: where it stands in server.handler
  req,     \* per handler: the request it serves
  rpath,   \* per handler: resourcePath
  sfx,     \* per handler: the number of the import suffix it tries next
  resp,    \* per handler: the response writer w and what was written to it
  served,  \* per cache key: the body answered by the request that first stored it
  nreq,    \* requests accepted so far
  nchurn,  \* file changes so far
  run      \* the process around the handlers: where run() stands, the signal
           \* channel, the context, the http.Server

vars == <<cfg, reqs, churn, fs, cache, pc, req, rpath, sfx, resp, served, nreq, nchurn, run>>

\* the requests one run accepts
MaxRequests == 3
\* the file changes one run sees
MaxChurn == 2

Procs == DOMAIN pc

NoRequest == [path |-> <<>>, acceptEncoding |-> <<>>, accept |-> <<>>]

\* run() and what it waits for:
\*   at        "loop" in for !stop { select }, "left" after the loop,
\*             "shutdown" inside httpServer.Shutdown, "returned"
\*   sigch     the signals in signalChannel, oldest first
\*   ctxDone   ctx is cancelled
\*   srv       the goroutine of ListenAndServe: "starting", "listening",
\*             "failed" (it returned an error), "closed" (after Shutdown)
\*   stoppedBy the select case that set stop: "signal" or "context"
\*   shutdowns calls of httpServer.Shutdown so far
\*   active    connections whose request is being served (counted where
\*             the handlers are not followed step by step)
\*   ignored   the select has taken a signal from the channel that is no
\*             reason to stop
Started ==
  [at |-> "loop", sigch |-> <<>>, ctxDone |-> FALSE, srv |-> "starting",
   stoppedBy |-> "", shutdowns |-> 0, active |-> 0, ignored |-> FALSE]

\* run() waiting in its loop with the server listening and nothing signalled
Serving == [Started EXCEPT !.srv = "listening"]

\* a response writer nothing was written to
\* status 0: no response written; aborted: the handler panicked
\* via: the stage that answered; hit: the cache entry the import stage used
\* signals: what the handler and server.fallback reported to telemetry for
\* the outcome, in order: the counter they added to ("fallbacks",
\* "not_found"; nothing adds to resources_served) or "span_error" for
\* span.SetStatus(codes.Error, ...)
FreshWriter ==
  [status |-> 0, aborted |-> FALSE, hdr |-> <<>>, name |-> <<>>, body |-> <<>>,
   writes |-> 0, via |-> "", hit |-> <<>>, probes |-> <<>>, signals |-> <<>>]

\* a variant of AfterCall that is not the code: the fallbacks counter is
\* added to for every 200, whatever stage served it
AfterCallCountsAll(w, res, via) ==
  IF res.panic
  THEN [w EXCEPT !.aborted = TRUE, !.hdr = res.hdr, !.probes = res.probes, !.via = via]
  ELSE IF res.found
  THEN [w EXCEPT !.status = 200, !.hdr = res.hdr, !.name = res.name, !.body = res.body,
                 !.writes = w.writes + res.writes, !.probes = res.probes, !.via = via,
                 !.signals = w.signals \o <<"fallbacks">>]
  ELSE IF res.err
  THEN [w EXCEPT !.status = 500, !.hdr = ErrorHeaders(res.hdr),
                 !.writes = w.writes + res.writes + 1, !.probes = res.probes, !.via = via,
                 !.signals = w.signals \o <<"span_error">>]
  ELSE [w EXCEPT !.hdr = res.hdr, !.probes = res.probes]

\* w after a call of findAndServeEncoded returned res to the handler in stage
\* via: 200 was written by the call, or the handler writes 500, or the panic
\* ends the handler, or nothing was written yet
AfterCall(w, res, via) ==
  IF res.panic
  THEN [w EXCEPT !.aborted = TRUE, !.hdr = res.hdr, !.probes = res.probes, !.via = via]
  ELSE IF res.found
  THEN [w EXCEPT !.status = 200, !.hdr = res.hdr, !.name = res.name, !.body = res.body,
                 !.writes = w.writes + res.writes, !.probes = res.probes, !.via = via,
                 !.signals = w.signals \o (IF via = "spa" THEN <<"fallbacks">> ELSE <<>>)]
  ELSE IF res.err
  THEN [w EXCEPT !.status = 500, !.hdr = ErrorHeaders(res.hdr),
                 !.writes = w.writes + res.writes + 1, !.probes = res.probes, !.via = via,
                 !.signals = w.signals \o <<"span_error">>]
  ELSE [w EXCEPT !.hdr = res.hdr, !.probes = res.probes]

\* the handler's own 404: http.Error(w, "Not Found", http.StatusNotFound);
\* the rejection of a path outside the base url adds to no counter
NotFound(w, via) ==
  [w EXCEPT !.status = 404, !.hdr = ErrorHeaders(w.hdr), !.writes = w.writes + 1, !.via = via,
            !.signals = w.signals \o (IF via = "reject" THEN <<"span_error">>
                                      ELSE <<"not_found", "span_error">>)]

\* w after the last stage returned res: if !found { http.Error(404) }
AfterLast(w, res, via) ==
  IF Ended(res) THEN AfterCall(w, res, via) ELSE NotFound(AfterCall(w, res, via), via)

----------------------------------------------------------------------------
(* server.handler, one action per stage.  Each call of findAndServeEncoded *)
(* reads the file system as it is at that step; other handlers and file    *)
(* changes interleave between the stages.                                  *)

\* handler p goes on after a call returned res in stage via: it is done, or
\* it enters stage next
Continue(p, w, res, via, next) ==
  /\ resp' = [resp EXCEPT ![p] = AfterCall(w, res, via)]
  /\ pc' = [pc EXCEPT ![p] = IF Ended(res) THEN "done" ELSE next]

\* a variant of Resolve that is not the code: the cache is consulted before
\* the resource path itself is looked up
ResolveCacheFirst(p, r, n, ord) ==
  /\ req' = [req EXCEPT ![p] = r]
  /\ rpath' = [rpath EXCEPT ![p] = n.resourcePath]
  /\ IF n.rejected
     THEN /\ resp' = [resp EXCEPT ![p] = NotFound(FreshWriter, "reject")]
          /\ pc' = [pc EXCEPT ![p] = "done"]
     ELSE Continue(p, FreshWriter,
                   findAndServeEncoded(cfg, fs, <<>>,
                                       IF n.resourcePath \in DOMAIN cache
                                       THEN cache[n.resourcePath] ELSE n.resourcePath,
                                       r, ord, <<>>),
                   "primary", "import")

\* the handler after the base url was stripped to n
Resolve(p, r, n, ord) ==
  /\ req' = [req EXCEPT ![p] = r]
  /\ rpath' = [rpath EXCEPT ![p] = n.resourcePath]
  /\ IF n.rejected
     THEN /\ resp' = [resp EXCEPT ![p] = NotFound(FreshWriter, "reject")]
          /\ pc' = [pc EXCEPT ![p] = "done"]
     ELSE Continue(p, FreshWriter,
                   findAndServeEncoded(cfg, fs, <<>>, n.resourcePath, r, ord, <<>>),
                   "primary", "import")

\* a request arrives at the listening server: path normalisation, then
\* primary resolution
Begin(p) ==
  /\ run.srv = "listening"
  /\ pc[p] = "idle"
  /\ nreq < MaxRequests
  /\ \E r \in reqs, ord \in HeaderOrders(cfg) : Resolve(p, r, Normalize(cfg, r.path), ord)
  /\ nreq' = nreq + 1
  /\ UNCHANGED <<run, cfg, reqs, churn, fs, cache, sfx, served, nchurn>>

\* a variant of ServeCached that is not the code: when nothing is found at
\* the real path the cache holds, the suffixes are probed again
ServeCachedReprobe(p, realPath, ord) ==
  Continue(p, [resp[p] EXCEPT !.hit = realPath],
           findAndServeEncoded(cfg, fs, resp[p].hdr, realPath, req[p], ord, resp[p].probes),
           "import", "probe")

\* a hit of the cache: serve the real path it holds
ServeCached(p, realPath, ord) ==
  Continue(p, [resp[p] EXCEPT !.hit = realPath],
           findAndServeEncoded(cfg, fs, resp[p].hdr, realPath, req[p], ord, resp[p].probes),
           "import", "spa")

\* server.importFallback up to the first probe: eligibility, cache, pattern
ImportLookup(p) ==
  /\ pc[p] = "import"
  /\ IF ~ImportEligible(cfg, rpath[p])
     THEN pc' = [pc EXCEPT ![p] = "spa"] /\ UNCHANGED resp
     ELSE IF rpath[p] \in DOMAIN cache
     THEN \E ord \in HeaderOrders(cfg) : ServeCached(p, cache[rpath[p]], ord)
     ELSE IF /\ cfg.ImportFallbackRegexp # <<>>
             /\ ~RegexMatch(cfg.ImportFallbackRegexp, rpath[p])
     THEN pc' = [pc EXCEPT ![p] = "spa"] /\ UNCHANGED resp
     ELSE pc' = [pc EXCEPT ![p] = "probe"] /\ UNCHANGED resp
  /\ sfx' = [sfx EXCEPT ![p] = 1]
  /\ UNCHANGED <<run, cfg, reqs, churn, fs, cache, req, rpath, served, nreq, nchurn>>

\* the handler after the probe of suffix number sfx[p] returned res
Probed(p, res) ==
  /\ resp' = [resp EXCEPT ![p] = AfterCall(resp[p], res, "import")]
  /\ IF res.found THEN pc' = [pc EXCEPT ![p] = "store"] /\ UNCHANGED sfx
     ELSE IF res.panic \/ res.err THEN pc' = [pc EXCEPT ![p] = "done"] /\ UNCHANGED sfx
     ELSE IF sfx[p] < Len(ImportSuffixes)
          THEN sfx' = [sfx EXCEPT ![p] = sfx[p] + 1] /\ UNCHANGED pc
          ELSE pc' = [pc EXCEPT ![p] = "spa"] /\ UNCHANGED sfx

\* one suffix probe of server.importFallback
Probe(p) ==
  /\ pc[p] = "probe"
  /\ \E ord \in HeaderOrders(cfg) :
       Probed(p, findAndServeEncoded(cfg, fs, resp[p].hdr,
                                     rpath[p] \o ImportSuffixes[sfx[p]],
                                     req[p], ord, resp[p].probes))
  /\ UNCHANGED <<run, cfg, reqs, churn, fs, cache, req, rpath, served, nreq, nchurn>>

\* a variant of MapStore that is not the code: the map keeps the stored
\* entry alone
MapStoreSingle(m, key, value) == [k \in {key} |-> value]

\* sync.Map.Store
MapStore(m, key, value) ==
  [k \in (DOMAIN m) \cup {key} |-> IF k = key THEN value ELSE m[k]]

\* importFallbackMap.Store(resourcePath, realPath)
Store(p) ==
  /\ pc[p] = "store"
  /\ cache' = MapStore(cache, rpath[p], rpath[p] \o ImportSuffixes[sfx[p]])
  /\ served' = IF rpath[p] \in DOMAIN served THEN served
               ELSE MapStore(served, rpath[p], resp[p].body)
  /\ pc' = [pc EXCEPT ![p] = "done"]
  /\ UNCHANGED <<run, cfg, reqs, churn, fs, req, rpath, sfx, resp, nreq, nchurn>>

\* server.fallback, and the 404 of the handler when nothing was found
Spa(p) ==
  /\ pc[p] = "spa"
  /\ IF FallbackSkipped(cfg, req[p])
     THEN resp' = [resp EXCEPT ![p] = NotFound(resp[p], "spa")]
     ELSE \E ord \in HeaderOrders(cfg) :
            resp' = [resp EXCEPT ![p] =
              AfterLast(resp[p],
                        findAndServeEncoded(cfg, fs, resp[p].hdr, s_slashIndex,
                                            req[p], ord, resp[p].probes),
                        "spa")]
  /\ pc' = [pc EXCEPT ![p] = "done"]
  /\ UNCHANGED <<run, cfg, reqs, churn, fs, cache, req, rpath, sfx, served, nreq, nchurn>>

\* the handler has returned; the goroutine is free for the next request
Return(p) ==
  /\ pc[p] = "done"
  /\ pc' = [pc EXCEPT ![p] = "idle"]
  /\ req' = [req EXCEPT ![p] = NoRequest]
  /\ rpath' = [rpath EXCEPT ![p] = <<>>]
  /\ sfx' = [sfx EXCEPT ![p] = 1]
  /\ resp' = [resp EXCEPT ![p] = FreshWriter]
  /\ UNCHANGED <<run, cfg, reqs, churn, fs, cache, served, nreq, nchurn>>

\* a file is deployed under a root while the server runs
Deploy ==
  /\ nchurn < MaxChurn
  /\ \E f \in churn :
       /\ f \notin DOMAIN fs
       /\ fs' = [x \in (DOMAIN fs) \cup {f} |-> IF x = f THEN "file" ELSE fs[x]]
  /\ nchurn' = nchurn + 1
  /\ UNCHANGED <<run, cfg, reqs, churn, cache, pc, req, rpath, sfx, resp, served, nreq>>

\* a file is removed from a root while the server runs
Remove ==
  /\ nchurn < MaxChurn
  /\ \E f \in churn :
       /\ f \in DOMAIN fs
       /\ fs' = [x \in (DOMAIN fs) \ {f} |-> fs[x]]
  /\ nchurn' = nchurn + 1
  /\ UNCHANGED <<run, cfg, reqs, churn, cache, pc, req, rpath, sfx, resp, served, nreq>>

Next ==
  \/ \E p \in Procs : Begin(p)
  \/ \E p \in Procs : ImportLookup(p)
  \/ \E p \in Procs : Probe(p)
  \/ \E p \in Procs : Store(p)
  \/ \E p \in Procs : Spa(p)
  \/ \E p \in Procs : Return(p)
  \/ Deploy
  \/ Remove

----------------------------------------------------------------------------
(* The runs that are checked: configurations, file systems and requests.   *)

rootA == <<"/","a">>
rootB == <<"/","b">>

p_m      == <<"/","m">>
p_x      == <<"/","x">>
p_djson  == <<"/","d">> \o s_json
p_app    == <<"/","a","p","p">>
p_missing == <<"/","g","o","n","e">>
rx_json  == <<"\\",".","j","s","o","n">>
h_lowerCacheControl == <<"c","a","c","h","e","-","c","o","n","t","r","o","l">>
h_XTest  == <<"X","-","T","e","s","t">>

\* the Config the tests of serve_test.go build: the given roots, every other
\* field at its zero value
DefaultConfig(roots) ==
  [RootDirs |-> roots, BaseURL |-> <<>>, AllowSkipBaseUrl |-> FALSE,
   Headers |-> {}, HeadersPerPathRegex |-> {}, NotFoundRegexs |-> <<>>,
   FallbackDisabled |-> FALSE, GzipDisabled |-> FALSE, BrotliDisabled |-> FALSE,
   ImportFallbackRegexp |-> <<>>]

Get(path, acceptEncoding) ==
  [path |-> path, acceptEncoding |-> acceptEncoding, accept |-> <<>>]

ae_br      == <<"b","r">>
ae_brq     == <<"b","r",";","q","=","0",".","8">>
ae_gzip    == <<"g","z","i","p">>
ae_gzip_br == <<"g","z","i","p",","," ","b","r">>

\* the file systems that assign to each path of paths one of its kinds, over
\* the files of base; "none" leaves the path out
FileSystems(base, kindsOf) ==
  {[x \in (DOMAIN base) \cup {q \in DOMAIN kindsOf : g[q] # "none"} |->
        IF x \in DOMAIN kindsOf /\ g[x] # "none" THEN g[x] ELSE base[x]] :
     g \in {h \in [DOMAIN kindsOf -> UNION Range(kindsOf)] :
              \A q \in DOMAIN kindsOf : h[q] \in kindsOf[q]}}

At(root, resourcePath) == PathJoin(root, resourcePath)

\* one function from a set of <<key, value>> pairs
Table(pairs) == [k \in {e[1] : e \in pairs} |-> (CHOOSE e \in pairs : e[1] = k)[2]]

Scenario(c, files, requests, changing, clients) ==
  [cfg |-> c, fs |-> files, reqs |-> requests, churn |-> changing, clients |-> clients]

\* two roots that overlay each other: an asset and its precompressed
\* siblings in either root, or a directory of that name in the first root
OverlayScenarios ==
  LET c == DefaultConfig(<<rootA, rootB>>)
      base == Table({<<rootA, "dir">>, <<rootB, "dir">>, <<At(rootB, s_slashIndex), "file">>})
      kinds == Table({
        <<At(rootA, p_m \o s_js), {"none", "file", "dir"}>>,
        <<At(rootA, p_m \o s_js \o s_dot \o s_br), {"none", "file", "dir", "openerr"}>>,
        <<At(rootB, p_m \o s_js), {"none", "file"}>>,
        <<At(rootB, p_m \o s_js \o s_dot \o s_br), {"none", "file"}>>,
        <<At(rootB, p_m \o s_js \o s_dot \o s_gz), {"none", "file"}>>})
      requests == {Get(p_m \o s_js, ae) :
                     ae \in {<<>>, <<ae_br>>, <<ae_brq>>, <<ae_gzip_br>>, <<ae_gzip, ae_br>>}}
  IN  {Scenario(c, f, requests, {}, 1) : f \in FileSystems(base, kinds)}

\* one root whose files fail in the ways a file system fails
FaultScenarios ==
  LET c == DefaultConfig(<<rootA>>)
      base == Table({<<rootA, "dir">>})
      kinds == Table({
        <<At(rootA, p_x), {"none"} \cup FileKinds>>,
        <<At(rootA, p_x \o s_dot \o s_br), {"none"} \cup FileKinds>>,
        <<At(rootA, p_x \o s_js), {"none", "file", "openerr", "flaky"}>>,
        <<At(rootA, s_slashIndex), {"none", "file", "openerr", "flaky"}>>})
      requests == {Get(p_x, ae) : ae \in {<<>>, <<ae_br>>}}
  IN  {Scenario(c, f, requests, {}, 1) : f \in FileSystems(base, kinds)}

\* extensionless imports, with modules deployed and removed while two
\* requests are in flight
ImportScenarios ==
  LET c == DefaultConfig(<<rootA>>)
      base == Table({<<rootA, "dir">>})
      kinds == Table({
        <<At(rootA, p_m \o s_mjs), {"none", "file"}>>,
        <<At(rootA, p_m \o s_js), {"none", "file"}>>,
        <<At(rootA, p_m \o s_js \o s_dot \o s_br), {"none", "file"}>>,
        <<At(rootA, s_slashIndex), {"none", "file"}>>})
      requests == {Get(p_m, ae) : ae \in {<<>>, <<ae_br>>}}
      changing == {At(rootA, p_m \o s_mjs), At(rootA, p_m \o s_js)}
  IN  {Scenario(c, f, requests, changing, n) : f \in FileSystems(base, kinds), n \in {1, 2}}

p_api   == <<"/","a","p","i","/","x">>
rx_api  == <<"^","/","a","p","i">>
ac_json == <<"a","p","p","l","i","c","a","t","i","o","n","/","j","s","o","n">>
ac_html_more == s_textHtml \o <<",">> \o ac_json
ac_json_html == ac_json \o <<",", " ">> \o s_textHtml

GetAccepting(path, accept) ==
  [path |-> path, acceptEncoding |-> <<>>, accept |-> accept]

\* paths that no file resolves, under every setting of the fallback gates and
\* with the Accept headers a client may send (none, one line, two lines, an
\* empty line)
FallbackScenarios ==
  LET base == Table({<<rootA, "dir">>})
      kinds == Table({<<At(rootA, s_slashIndex), {"none", "file"}>>})
      requests == {GetAccepting(q, a) :
                     q \in {p_missing, p_api},
                     a \in {<<>>, <<s_textHtml>>, <<ac_html_more>>, <<ac_json>>,
                            <<ac_json_html>>, <<ac_json, s_textHtml>>,
                            <<<<>>>>, <<<<>>, ac_json>>}}
  IN  {Scenario([DefaultConfig(<<rootA>>) EXCEPT
                   !.FallbackDisabled = d, !.NotFoundRegexs = n],
                f, requests, {}, 1) :
         d \in BOOLEAN, n \in {<<>>, <<rx_api>>}, f \in FileSystems(base, kinds)}

\* an asset and its precompressed siblings under every setting of the two
\* switches that disable an encoding
EncodingScenarios ==
  LET base == Table({<<rootA, "dir">>})
      kinds == Table({
        <<At(rootA, p_m \o s_js), {"none", "file"}>>,
        <<At(rootA, p_m \o s_js \o s_dot \o s_br), {"none", "file"}>>,
        <<At(rootA, p_m \o s_js \o s_dot \o s_gz), {"none", "file"}>>})
      requests == {Get(p_m \o s_js, ae) :
                     ae \in {<<>>, <<ae_br>>, <<ae_gzip>>, <<ae_gzip_br>>, <<ae_gzip, ae_br>>}}
  IN  {Scenario([DefaultConfig(<<rootA>>) EXCEPT
                   !.BrotliDisabled = b, !.GzipDisabled = g],
                f, requests, {}, 1) :
         b \in BOOLEAN, g \in BOOLEAN, f \in FileSystems(base, kinds)}

rx_m      == <<"^","/","m">>
s_disabled == s_disable \o <<"d">>

\* the import fallback unrestricted, restricted to the paths under /m, and
\* disabled
RestrictionScenarios ==
  LET base == Table({<<rootA, "dir">>})
      kinds == Table({
        <<At(rootA, p_m \o s_js), {"none", "file"}>>,
        <<At(rootA, p_x \o s_js), {"none", "file"}>>})
      requests == {Get(q, <<>>) : q \in {p_m, p_x, p_m \o s_js, p_x \o s_cjs}}
  IN  {Scenario([DefaultConfig(<<rootA>>) EXCEPT !.ImportFallbackRegexp = rx],
                f, requests, {}, 1) :
         rx \in {<<>>, rx_m, s_disable, s_disabled}, f \in FileSystems(base, kinds)}

\* an exclusion pattern under a base url that may be skipped: the same
\* resource is asked for with the base url in front of its path and without
ExclusionScenarios ==
  LET base == Table({<<rootA, "dir">>})
      kinds == Table({<<At(rootA, s_slashIndex), {"none", "file"}>>})
      requests == {GetAccepting(q, a) :
                     q \in {p_api, p_app \o p_api},
                     a \in {<<>>, <<s_textHtml>>, <<ac_json>>}}
  IN  {Scenario([DefaultConfig(<<rootA>>) EXCEPT
                   !.BaseURL = b, !.AllowSkipBaseUrl = a, !.NotFoundRegexs = <<rx_api>>],
                f, requests, {}, 1) :
         b \in {p_app, p_app \o s_slash}, a \in BOOLEAN, f \in FileSystems(base, kinds)}

rx_jsEnd  == <<"\\",".","j","s","$">>
rx_brEnd  == <<"\\",".","b","r","$">>
rx_bare   == <<"^","/","m","$">>
rx_index  == <<"^","/","i","n","d","e","x","\\",".","h","t","m","l","$">>
rx_gone   == <<"^","/","g","o","n","e">>
rx_x      == <<"^","/","x">>

Rule(rx, key, value) == [rx |-> rx, headers |-> {<<key, value>>}]

\* rules that match the name of a resource, of its compressed sibling, of the
\* path before a suffix was added, of the index document and of paths that
\* end in 404 or 500; and two rules that give one header to the same path,
\* next to a global header of that name
RuleScenarios ==
  LET base == Table({<<rootA, "dir">>})
      kinds == Table({
        <<At(rootA, p_m \o s_js), {"none", "file"}>>,
        <<At(rootA, p_m \o s_js \o s_dot \o s_br), {"none", "file"}>>,
        <<At(rootA, p_x), {"none", "openerr"}>>,
        <<At(rootA, s_slashIndex), {"none", "file"}>>})
      requests == {Get(q, ae) : q \in {p_m \o s_js, p_m, p_missing, p_x},
                                ae \in {<<>>, <<ae_br>>}}
      configs == {
        [g |-> {}, r |-> {Rule(rx_jsEnd, h_XTest, "js"), Rule(rx_brEnd, h_XTest, "br"),
                          Rule(rx_bare, h_XTest, "bare")}],
        [g |-> {}, r |-> {Rule(rx_index, h_XTest, "index"), Rule(rx_gone, h_XTest, "gone"),
                          Rule(rx_x, h_XTest, "x")}],
        [g |-> {<<h_CacheControl, "no-cache">>},
         r |-> {Rule(rx_jsEnd, h_CacheControl, "no-store"),
                Rule(rx_m, h_lowerCacheControl, "private")}],
        [g |-> {<<h_lowerCacheControl, "no-cache">>},
         r |-> {Rule(rx_jsEnd, h_CacheControl, "no-store"),
                Rule(rx_m, h_lowerCacheControl, "private")}]}
  IN  {Scenario([DefaultConfig(<<rootA>>) EXCEPT !.Headers = k.g, !.HeadersPerPathRegex = k.r],
                f, requests, {}, 1) :
         k \in configs, f \in FileSystems(base, kinds)}

\* a bare import whose candidates are there in part: a suffixed file without
\* its sibling, a sibling without its file; a file of the bare name itself
\* may be deployed or removed while the server runs
VariantScenarios ==
  LET base == Table({<<rootA, "dir">>})
      kinds == Table({
        <<At(rootA, p_m), {"none", "file"}>>,
        <<At(rootA, p_m \o s_js), {"none", "file"}>>,
        <<At(rootA, p_m \o s_js \o s_dot \o s_br), {"none", "file"}>>,
        <<At(rootA, p_m \o s_cjs), {"none", "file"}>>,
        <<At(rootA, s_slashIndex), {"none", "file"}>>})
      requests == {Get(p_m, ae) : ae \in {<<>>, <<ae_br>>}}
  IN  {Scenario(DefaultConfig(<<rootA>>), f, requests, {At(rootA, p_m)}, 1) :
         f \in FileSystems(base, kinds)}

p_secret == <<"/","s">>
p_up     == <<"/",".",".">>

\* a file next to the root, and request paths with a ".." segment: the
\* server hands req.URL.Path to the handler as the client sent it
TraversalScenarios ==
  LET base == Table({<<rootA, "dir">>, <<At(rootA, p_x), "file">>, <<p_secret, "file">>})
      requests == {Get(q, <<>>) : q \in {p_x, p_up \o p_secret, p_app \o p_up \o p_secret}}
  IN  {Scenario([DefaultConfig(<<rootA>>) EXCEPT !.BaseURL = b, !.AllowSkipBaseUrl = a],
                base, requests, {}, 1) :
         b \in {<<>>, p_app \o s_slash}, a \in BOOLEAN}

\* header rules and base urls
HeaderScenarios ==
  LET base == Table({<<rootA, "dir">>, <<At(rootA, s_slashIndex), "file">>,
                     <<At(rootA, p_djson), "file">>})
      globals == {{}, {<<h_lowerCacheControl, "no-cache">>},
                  {<<h_CacheControl, "no-cache">>, <<h_XTest, "test">>}}
      rules == {{}, {[rx |-> rx_json, headers |-> {<<h_CacheControl, "immutable">>}]}}
      requests == {Get(q, <<>>) :
                     q \in {s_slash, s_slashIndex, p_djson, p_missing, p_app,
                            p_app \o s_slash, p_app \o s_slashIndex, p_app \o p_djson}}
  IN  {Scenario([DefaultConfig(<<rootA>>) EXCEPT
                   !.BaseURL = b, !.AllowSkipBaseUrl = a, !.Headers = g,
                   !.HeadersPerPathRegex = r],
                base, requests, {}, 1) :
         b \in {<<>>, s_slash, p_app \o s_slash}, a \in BOOLEAN, g \in globals, r \in rules}

Scenarios ==
  OverlayScenarios \cup FaultScenarios \cup ImportScenarios \cup HeaderScenarios
    \cup FallbackScenarios \cup EncodingScenarios \cup RestrictionScenarios
    \cup ExclusionScenarios \cup RuleScenarios \cup TraversalScenarios
    \cup VariantScenarios

Init ==
  \E sc \in Scenarios :
    /\ cfg = sc.cfg
    /\ reqs = sc.reqs
    /\ churn = sc.churn
    /\ fs = sc.fs
    /\ cache = <<>>
    /\ pc = [p \in 1..sc.clients |-> "idle"]
    /\ req = [p \in 1..sc.clients |-> NoRequest]
    /\ rpath = [p \in 1..sc.clients |-> <<>>]
    /\ sfx = [p \in 1..sc.clients |-> 1]
    /\ resp = [p \in 1..sc.clients |-> FreshWriter]
    /\ served = <<>>
    /\ nreq = 0
    /\ nchurn = 0
    /\ run = Serving

Spec == Init /\ [][Next]_vars

----------------------------------------------------------------------------
(* run(): the server is started in a goroutine, run waits in a select for  *)
(* a signal or for the end of its context, then shuts the server down.     *)
(* Here a request in service is a connection that is counted; what the     *)
(* handler does with it is the subject of the actions above.               *)

\* signalChannel := make(chan os.Signal, 2)
SignalChannelCap == 2

\* what can be sent on the channel: os.Interrupt, syscall.SIGTERM, and any
\* other signal
Signals == {"interrupt", "sigterm", "other"}

\* variants of StopsOn that are not the code: SIGTERM is not a reason to
\* stop; every signal is a reason to stop
StopsOnAnySignal(sig) == TRUE

StopsOnInterruptOnly(sig) == sig = "interrupt"

\* if sig == os.Interrupt || sig == syscall.SIGTERM
StopsOn(sig) == sig = "interrupt" \/ sig = "sigterm"

\* err := httpServer.ListenAndServe() in its goroutine: it listens, or it
\* returns an error at once (the port is taken)
Listen ==
  /\ run.srv = "starting"
  /\ \/ run' = [run EXCEPT !.srv = "listening"]
     \/ run' = [run EXCEPT !.srv = "failed"]
  /\ UNCHANGED <<cfg, reqs, churn, fs, cache, pc, req, rpath, sfx, resp, served, nreq, nchurn>>

\* a signal is delivered to the channel; a full channel takes no more
Signal ==
  /\ run.at # "returned"
  /\ Len(run.sigch) < SignalChannelCap
  /\ \E sig \in Signals : run' = [run EXCEPT !.sigch = Append(run.sigch, sig)]
  /\ UNCHANGED <<cfg, reqs, churn, fs, cache, pc, req, rpath, sfx, resp, served, nreq, nchurn>>

\* the context given to run is cancelled
Cancel ==
  /\ run.at # "returned"
  /\ ~run.ctxDone
  /\ run' = [run EXCEPT !.ctxDone = TRUE]
  /\ UNCHANGED <<cfg, reqs, churn, fs, cache, pc, req, rpath, sfx, resp, served, nreq, nchurn>>

\* case sig := <-signalChannel
ReceiveSignal ==
  /\ run.at = "loop"
  /\ run.sigch # <<>>
  /\ run' = IF StopsOn(Head(run.sigch))
            THEN [run EXCEPT !.sigch = Tail(run.sigch), !.at = "left", !.stoppedBy = "signal"]
            ELSE [run EXCEPT !.sigch = Tail(run.sigch), !.ignored = TRUE]
  /\ UNCHANGED <<cfg, reqs, churn, fs, cache, pc, req, rpath, sfx, resp, served, nreq, nchurn>>

\* case <-ctx.Done()
ContextDone ==
  /\ run.at = "loop"
  /\ run.ctxDone
  /\ run' = [run EXCEPT !.at = "left", !.stoppedBy = "context"]
  /\ UNCHANGED <<cfg, reqs, churn, fs, cache, pc, req, rpath, sfx, resp, served, nreq, nchurn>>

\* httpServer.Shutdown(context.Background()) is called: the listener is
\* closed, ListenAndServe returns
CallShutdown ==
  /\ run.at = "left"
  /\ run' = [run EXCEPT !.at = "shutdown", !.srv = "closed", !.shutdowns = run.shutdowns + 1]
  /\ UNCHANGED <<cfg, reqs, churn, fs, cache, pc, req, rpath, sfx, resp, served, nreq, nchurn>>

\* the connections that are served at a time
MaxActive == 2

\* the listening server accepts a connection and calls ServeHTTP for its
\* request
Accept ==
  /\ run.srv = "listening"
  /\ run.active < MaxActive
  /\ run' = [run EXCEPT !.active = run.active + 1]
  /\ UNCHANGED <<cfg, reqs, churn, fs, cache, pc, req, rpath, sfx, resp, served, nreq, nchurn>>

\* ServeHTTP returns: server.handler is a finite sequence of stages, each
\* of them a bounded number of file-system calls
Served ==
  /\ run.active > 0
  /\ run' = [run EXCEPT !.active = run.active - 1]
  /\ UNCHANGED <<cfg, reqs, churn, fs, cache, pc, req, rpath, sfx, resp, served, nreq, nchurn>>

\* Shutdown returns when no connection is active any more, and run returns
ShutdownReturns ==
  /\ run.at = "shutdown"
  /\ run.active = 0
  /\ run' = [run EXCEPT !.at = "returned"]
  /\ UNCHANGED <<cfg, reqs, churn, fs, cache, pc, req, rpath, sfx, resp, served, nreq, nchurn>>

RunNext ==
  \/ Listen
  \/ Signal
  \/ Cancel
  \/ ReceiveSignal
  \/ ContextDone
  \/ CallShutdown
  \/ Accept
  \/ Served
  \/ ShutdownReturns

\* the configuration of the tests of run: one root, nothing else set
RunScenario ==
  Scenario(DefaultConfig(<<rootA>>),
           Table({<<rootA, "dir">>, <<At(rootA, s_slashIndex), "file">>}),
           {Get(s_slash, <<>>)}, {}, 1)

RunInit ==
  /\ cfg = RunScenario.cfg
  /\ reqs = RunScenario.reqs
  /\ churn = RunScenario.churn
  /\ fs = RunScenario.fs
  /\ cache = <<>>
  /\ pc = [p \in 1..RunScenario.clients |-> "idle"]
  /\ req = [p \in 1..RunScenario.clients |-> NoRequest]
  /\ rpath = [p \in 1..RunScenario.clients |-> <<>>]
  /\ sfx = [p \in 1..RunScenario.clients |-> 1]
  /\ resp = [p \in 1..RunScenario.clients |-> FreshWriter]
  /\ served = <<>>
  /\ nreq = 0
  /\ nchurn = 0
  /\ run = Started

\* a goroutine that can take a step is scheduled: run in its select and at
\* its Shutdown call, and every handler that serves a request. A select with
\* several ready cases chooses among them at random, so a case that stays
\* ready is taken in the end.
RunSpec ==
  /\ RunInit /\ [][RunNext]_vars
  /\ WF_vars(ReceiveSignal)
  /\ WF_vars(ContextDone)
  /\ WF_vars(CallShutdown)
  /\ WF_vars(ShutdownReturns)
  /\ WF_vars(Served)

----------------------------------------------------------------------------
(* Vocabulary of the properties *)

\* handler p has returned, or was ended by a panic
Done(p) == pc[p] = "done"

\* the value of header k of a response, "" when it is not set
HeaderGet(hdr, k) == IF k \in DOMAIN hdr THEN hdr[k] ELSE ""

\* a file-system call of the request failed with an error other than not-exist
Failed(w) == \E i \in DOMAIN w.probes : w.probes[i].failed

IsFile(p) == KindAt(fs, p) = "file"

\* a resource path and its precompressed siblings
Variants(R) == {R, R \o s_dot \o s_br, R \o s_dot \o s_gz}

\* the absolute paths under the roots that hold resource R or a sibling of it
FilesOf(R) == {At(cfg.RootDirs[i], v) : i \in DOMAIN cfg.RootDirs, v \in Variants(R)}

\* the index documents of the roots
IndexFiles == {At(cfg.RootDirs[i], s_slashIndex) : i \in DOMAIN cfg.RootDirs}

\* the pieces of s between the occurrences of the character sep
RECURSIVE SplitAt(_, _)
SplitAt(s, sep) ==
  IF \A i \in DOMAIN s : s[i] # sep
  THEN <<s>>
  ELSE LET i == CHOOSE j \in DOMAIN s : s[j] = sep /\ \A k \in 1..(j - 1) : s[k] # sep
       IN  <<SubSeq(s, 1, i - 1)>> \o SplitAt(DropFirst(s, i), sep)

\* s without its leading and trailing blanks
RECURSIVE TrimSpace(_)
TrimSpace(s) ==
  IF s = <<>> THEN s
  ELSE IF Head(s) = " " THEN TrimSpace(Tail(s))
  ELSE IF s[Len(s)] = " " THEN TrimSpace(SubSeq(s, 1, Len(s) - 1))
  ELSE s

\* the codings an Accept-Encoding header lists: the comma-separated elements
\* of its lines, each without its parameters
ListedCodings(r) ==
  {TrimSpace(Head(SplitAt(e, ";"))) :
     e \in UNION {Range(SplitAt(r.acceptEncoding[i], ",")) : i \in DOMAIN r.acceptEncoding}}

\* the values the rules matching resource path name give header k
RuleValues(name, k) ==
  {kv[2] : kv \in {h \in UNION {r.headers : r \in {q \in cfg.HeadersPerPathRegex :
                                                     RegexMatch(q.rx, name)}} :
                     CanonicalHeaderKey(h[1]) = k}}

\* the configuration says nothing about Cache-Control
CacheControlUnconfigured ==
  /\ \A g \in cfg.Headers : CanonicalHeaderKey(g[1]) # h_CacheControl
  /\ \A r \in cfg.HeadersPerPathRegex :
       \A h \in r.headers : CanonicalHeaderKey(h[1]) # h_CacheControl

\* in this step handler p leaves the import stage through an entry of the cache
CacheHitStep(p) ==
  /\ pc[p] = "import" /\ pc'[p] # "import"
  /\ ImportEligible(cfg, rpath[p])
  /\ rpath[p] \in DOMAIN cache

\* the file-system calls handler p makes in this step
NewProbes(p) == SubSeq(resp'[p].probes, Len(resp[p].probes) + 1, Len(resp'[p].probes))

\* nothing is left under any root of resource R and its siblings
Gone(R) == \A f \in FilesOf(R) : KindAt(fs, f) = "none"

\* resource R is a regular file in some root and no lookup of it can fail
Servable(R) ==
  /\ \E i \in DOMAIN cfg.RootDirs : IsFile(At(cfg.RootDirs[i], R))
  /\ \A f \in FilesOf(R) : KindAt(fs, f) \in {"none", "file", "dir"}

----------------------------------------------------------------------------
(* Properties *)

\* C1: when resource P is a regular file in the first root and in the second,
\* every 200 response to a request for P carries content from the first root,
\* whatever the second root holds.
C1_FirstRootWins ==
  \A p \in Procs :
    (/\ Done(p) /\ resp[p].status = 200
     /\ Len(cfg.RootDirs) >= 2
     /\ IsFile(At(cfg.RootDirs[1], rpath[p]))
     /\ IsFile(At(cfg.RootDirs[2], rpath[p])))
    => HasPrefix(resp[p].body, cfg.RootDirs[1] \o s_slash)

\* C2: when Accept-Encoding lists br as one of its tokens, brotli is not
\* disabled and P.br is a regular file in some root, a request for P during
\* which no file-system call fails is answered 200 with the bytes of P.br,
\* Content-Encoding br and the Content-Type of P's own extension.
C2_AdvertisedBrotliServed ==
  \A p \in Procs :
    (/\ Done(p) /\ resp[p].via # "reject" /\ ~Failed(resp[p])
     /\ s_br \in ListedCodings(req[p])
     /\ ~cfg.BrotliDisabled
     /\ \E i \in DOMAIN cfg.RootDirs :
          IsFile(At(cfg.RootDirs[i], rpath[p] \o s_dot \o s_br)))
    => /\ resp[p].status = 200
       /\ HeaderGet(resp[p].hdr, h_ContentEncoding) = "br"
       /\ resp[p].body \in {At(cfg.RootDirs[i], rpath[p] \o s_dot \o s_br) :
                              i \in DOMAIN cfg.RootDirs}
       /\ TypeByExtension(FileExt(rpath[p])) # ""
            => HeaderGet(resp[p].hdr, h_ContentType) = TypeByExtension(FileExt(rpath[p]))

\* C3, as the specification states it: a request that is resolved through the
\* memoized entry of P after the file it names (and its siblings) were
\* deleted is still answered 200 with the content first served for P.
C3_DeletedFileStillServed ==
  [][\A p \in Procs :
       (CacheHitStep(p) /\ rpath[p] \in DOMAIN served /\ Gone(cache[rpath[p]]))
       => (resp'[p].status = 200 /\ resp'[p].body = served[rpath[p]])]_vars

\* C3, as the code has it: the cache holds the path, not the content. A
\* request resolved through the memoized entry of P after the file it names
\* and its precompressed siblings were deleted from every root finds nothing
\* there, probes no other suffix and goes on to the SPA fallback, which
\* answers with the index document, a 404 or its own failure, never with the
\* content of the deleted file.
C3_StaleEntryFallsThrough ==
  [][\A p \in Procs :
       /\ (CacheHitStep(p) /\ Gone(cache[rpath[p]]))
          => /\ pc'[p] = "spa"
             /\ resp'[p].status = 0 /\ resp'[p].writes = 0
             /\ resp'[p].hit = cache[rpath[p]]
       /\ (pc[p] = "spa" /\ pc'[p] = "done" /\ resp[p].hit # <<>>)
          => /\ resp'[p].via = "spa"
             /\ resp'[p].body \notin FilesOf(resp[p].hit)
             /\ resp'[p].status = 200 => resp'[p].name = s_slashIndex]_vars

\* C3 witness: a handler on its way to the SPA fallback after the entry of the
\* cache it used named a file that was served earlier and is gone now
C3_StaleEntryReached ==
  \E p \in Procs :
    /\ pc[p] = "spa" /\ resp[p].hit # <<>>
    /\ rpath[p] \in DOMAIN served
    /\ served[rpath[p]] \in FilesOf(resp[p].hit)
    /\ Gone(resp[p].hit)

\* C4: a header that a matching per-pattern rule and the global headers both
\* give carries the per-pattern value in every 200 response.
C4_RuleBeatsGlobal ==
  \A p \in Procs :
    (Done(p) /\ resp[p].status = 200)
    => \A g \in cfg.Headers :
         RuleValues(resp[p].name, CanonicalHeaderKey(g[1])) # {}
         => HeaderGet(resp[p].hdr, CanonicalHeaderKey(g[1]))
              \in RuleValues(resp[p].name, CanonicalHeaderKey(g[1]))

\* C5: when no rule and no global header configures Cache-Control, every 200
\* response that delivers the index document carries Cache-Control: no-cache.
C5_IndexNoCache ==
  \A p \in Procs :
    (/\ Done(p) /\ resp[p].status = 200
     /\ resp[p].body \in IndexFiles
     /\ CacheControlUnconfigured)
    => HeaderGet(resp[p].hdr, h_CacheControl) = "no-cache"

\* C6: a request during which a file-system call failed with an error other
\* than not-exist ends with exactly one response, status 500; the failed call
\* is the last one of the request (no later stage runs) and the handler
\* returns normally.
C6_FailureEndsIn500 ==
  \A p \in Procs :
    (Done(p) /\ Failed(resp[p]))
    => /\ resp[p].status = 500
       /\ ~resp[p].aborted
       /\ resp[p].writes = 1
       /\ resp[p].probes[Len(resp[p].probes)].failed

\* C7: when the probe of a precompressed sibling fails with an error other
\* than not-exist, the request ends with 500 and nothing is probed after it.
C7_SiblingFailureEndsIn500 ==
  \A p \in Procs :
    Done(p)
    => \A i \in DOMAIN resp[p].probes :
         (resp[p].probes[i].kind = "sibling" /\ resp[p].probes[i].failed)
         => (resp[p].status = 500 /\ i = Len(resp[p].probes))

\* C8: every request produces exactly one response, 200, 404 or 500; a stage
\* after the primary one is entered only while nothing was written and no
\* error occurred; an error ends the request with 500 and no further stage.
C8_SingleResponse ==
  \A p \in Procs :
    /\ pc[p] \in {"import", "probe", "spa"}
         => (resp[p].status = 0 /\ resp[p].writes = 0
             /\ ~resp[p].aborted /\ ~Failed(resp[p]))
    /\ Done(p)
         => /\ resp[p].status \in {200, 404, 500}
            /\ resp[p].writes = 1
            /\ ~resp[p].aborted
            /\ Failed(resp[p]) => resp[p].status = 500

\* C9: after P was first resolved to P.js and memoized, every later request
\* for P is resolved through the memoized P.js without probing P.mjs, and
\* while P.js is there it is answered 200 with the content the first request
\* got, also when P.mjs has been created in the meantime.
C9_FirstResolutionKept ==
  [][\A p \in Procs :
       (/\ CacheHitStep(p)
        /\ rpath[p] \in DOMAIN served
        /\ served[rpath[p]] \in FilesOf(rpath[p] \o s_js))
       => /\ resp'[p].hit = rpath[p] \o s_js
          /\ \A i \in DOMAIN NewProbes(p) : NewProbes(p)[i].path # rpath[p] \o s_mjs
          /\ Servable(rpath[p] \o s_js)
               => /\ resp'[p].status = 200
                  /\ resp'[p].body \in FilesOf(rpath[p] \o s_js)]_vars

\* C10: an entry of the import-fallback cache is never replaced or removed.
C10_EntryNeverReplaced ==
  [][\A k \in DOMAIN cache : k \in DOMAIN cache' /\ cache'[k] = cache[k]]_vars

\* the one outcome signal the outcome of a finished request calls for
OutcomeSignal(w) ==
  IF w.status = 200 THEN (IF w.via = "spa" THEN "fallbacks" ELSE "resources_served")
  ELSE IF w.status = 404 THEN "not_found"
  ELSE "span_error"

\* how often signal x was emitted for the request
SignalCount(w, x) == Cardinality({i \in DOMAIN w.signals : w.signals[i] = x})

\* C11: every request that ends with a response has emitted its outcome
\* signal exactly once: resources_served for a direct or import-fallback 200,
\* fallbacks for an SPA-fallback 200, not_found for every 404 (a base-url
\* mismatch included), an error signal for every 500; and no counter of
\* another outcome.
C11_OneOutcomeSignal ==
  \A p \in Procs :
    (Done(p) /\ ~resp[p].aborted)
    => /\ SignalCount(resp[p], OutcomeSignal(resp[p])) = 1
       /\ \A x \in {"resources_served", "fallbacks", "not_found"} \ {OutcomeSignal(resp[p])} :
            SignalCount(resp[p], x) = 0

\* C12: when a request has finished, no file-system call of it has left a
\* handle open.
C12_HandlesReleased ==
  \A p \in Procs :
    Done(p) => \A i \in DOMAIN resp[p].probes : ~resp[p].probes[i].unclosed

\* in this step handler p, whose path neither primary resolution nor import
\* fallback resolved, passes through server.fallback and ends
FallbackStep(p) == pc[p] = "spa" /\ pc'[p] = "done"

\* the step answered 404 without looking for the index document
Refused(p) ==
  /\ resp'[p].status = 404
  /\ resp'[p].body = <<>>
  /\ resp'[p].probes = resp[p].probes

\* the step answered with the index document
IndexServed(p) == resp'[p].status = 200 /\ resp'[p].body \in IndexFiles

ExclusionMatches(r) ==
  \E i \in DOMAIN cfg.NotFoundRegexs : RegexMatch(cfg.NotFoundRegexs[i], r.path)

AcceptsHtml(r) == \E i \in DOMAIN r.accept : HasPrefix(r.accept[i], s_textHtml)

\* C13: with fallback-disabled, a request whose path neither primary
\* resolution nor import fallback resolved is answered 404, the index
\* document is not looked for, whatever the Accept header says.
C13_DisabledFallbackRefuses ==
  [][\A p \in Procs : (FallbackStep(p) /\ cfg.FallbackDisabled) => Refused(p)]_vars

\* C13 witness: fallback disabled, the client accepts text/html, an index
\* document exists, and the unresolved request got 404
C13_DisabledFallbackReached ==
  \E p \in Procs :
    /\ Done(p) /\ resp[p].via = "spa" /\ resp[p].status = 404
    /\ cfg.FallbackDisabled
    /\ AcceptsHtml(req[p])
    /\ \E f \in IndexFiles : IsFile(f)

\* C14: an unresolved request whose path matches one of the exclusion
\* patterns is answered 404 and the index document is not looked for, also
\* when Accept names text/html or is absent.
C14_ExcludedPathRefused ==
  [][\A p \in Procs : (FallbackStep(p) /\ ExclusionMatches(req[p])) => Refused(p)]_vars

\* C14 witness: fallback enabled, the path matches an exclusion pattern, the
\* client accepts text/html, an index document exists, and the answer is 404
C14_ExcludedPathReached ==
  \E p \in Procs :
    /\ Done(p) /\ resp[p].via = "spa" /\ resp[p].status = 404
    /\ ~cfg.FallbackDisabled
    /\ ExclusionMatches(req[p])
    /\ AcceptsHtml(req[p])
    /\ \E f \in IndexFiles : IsFile(f)

FirstFileRoot(R) ==
  IF \E i \in DOMAIN cfg.RootDirs : IsFile(At(cfg.RootDirs[i], R))
  THEN CHOOSE i \in DOMAIN cfg.RootDirs :
         /\ IsFile(At(cfg.RootDirs[i], R))
         /\ \A j \in 1..(i - 1) : ~IsFile(At(cfg.RootDirs[j], R))
  ELSE 0

\* some root before the first one that holds R as a file holds a directory R
DirShadows(R) ==
  /\ FirstFileRoot(R) > 1
  /\ \E j \in 1..(FirstFileRoot(R) - 1) : KindAt(fs, At(cfg.RootDirs[j], R)) = "dir"

\* C16: a directory at root+path counts as not found for that root. It is
\* never the body of a response; a lookup whose path is a directory, a file
\* or nothing in every root never fails; and when a later root holds the
\* resource as a regular file the request is answered 200 with that file (or
\* with a precompressed sibling of it), not with the fallback document.
C16_DirectoryPassedOver ==
  \A p \in Procs :
    Done(p)
    => /\ resp[p].status = 200 => KindAt(fs, resp[p].body) # "dir"
       /\ \A i \in DOMAIN resp[p].probes :
            (/\ resp[p].probes[i].kind \in {"sibling", "file"}
             /\ \A k \in DOMAIN cfg.RootDirs :
                  KindAt(fs, At(cfg.RootDirs[k], resp[p].probes[i].path))
                    \in {"none", "file", "dir"})
            => ~resp[p].probes[i].failed
       /\ (resp[p].via # "reject" /\ Servable(rpath[p]) /\ DirShadows(rpath[p]))
          => /\ resp[p].status = 200
             /\ ~resp[p].aborted /\ ~Failed(resp[p])
             /\ resp[p].body \in FilesOf(rpath[p])
             /\ IsFile(resp[p].body)
             /\ HeaderGet(resp[p].hdr, h_ContentEncoding) = ""
                  => resp[p].body = At(cfg.RootDirs[FirstFileRoot(rpath[p])], rpath[p])

\* C16 witness: the first root holds a directory where the second holds the
\* requested file, and the file of the second root was served
C16_FileBehindDirectoryServed ==
  \E p \in Procs :
    /\ Done(p) /\ resp[p].status = 200
    /\ Len(cfg.RootDirs) >= 2
    /\ KindAt(fs, At(cfg.RootDirs[1], rpath[p])) = "dir"
    /\ resp[p].body = At(cfg.RootDirs[2], rpath[p])

\* request r is outside the base url and the configuration does not allow
\* that
OutsideBaseURL(r) ==
  /\ cfg.BaseURL # <<>>
  /\ ~cfg.AllowSkipBaseUrl
  /\ ~HasPrefix(r.path, cfg.BaseURL)
  /\ r.path \o s_slash # cfg.BaseURL

\* C17: a request whose path is outside a non-empty base url, when skipping
\* the base url is not allowed, is answered 404 in the step it arrives in: no
\* file is opened or stat'ed for it, the import cache is not consulted and no
\* later stage is entered.
C17_OutsideBaseURLRejected ==
  \A p \in Procs :
    (pc[p] # "idle" /\ OutsideBaseURL(req[p]))
    => /\ Done(p)
       /\ resp[p].status = 404
       /\ resp[p].writes = 1 /\ ~resp[p].aborted
       /\ resp[p].via = "reject"
       /\ resp[p].probes = <<>>
       /\ resp[p].hit = <<>>
       /\ resp[p].body = <<>>
       /\ "fallbacks" \notin Range(resp[p].signals)

\* C17 witness: a request outside the base url was refused although the file
\* its path names is there in the root
C17_RejectedReached ==
  \E p \in Procs :
    /\ Done(p) /\ OutsideBaseURL(req[p])
    /\ resp[p].status = 404
    /\ IsFile(At(cfg.RootDirs[1], req[p].path))

\* request r is answered although its path is outside the base url
SkipsBaseURL(r) ==
  /\ cfg.BaseURL # <<>>
  /\ cfg.AllowSkipBaseUrl
  /\ ~HasPrefix(r.path, cfg.BaseURL)
  /\ r.path \o s_slash # cfg.BaseURL

\* what the primary stage answers to request r for path under configuration c
PrimaryAnswer(c, r, path, ord) ==
  findAndServeEncoded(c, fs, <<>>, Normalize(c, path).resourcePath, r, ord, <<>>)

\* the response w is the answer res
SameAnswer(w, res) ==
  /\ (w.status = 200) = res.found
  /\ w.status = 200 => (w.hdr = res.hdr /\ w.body = res.body)

\* C18: a request that skips the base url and is answered by the primary
\* stage gets the status, body and headers that the same request gets when
\* the base url is "/", and that the request with the base url in front of
\* its path gets.
C18_SkippedLikeRootBaseURL ==
  \A p \in Procs :
    (/\ Done(p) /\ SkipsBaseURL(req[p])
     /\ resp[p].via = "primary" /\ ~resp[p].aborted
     /\ HasPrefix(req[p].path, s_slash)
     /\ HasSuffix(cfg.BaseURL, s_slash))
    => /\ \E ord \in HeaderOrders(cfg) :
            SameAnswer(resp[p],
                       PrimaryAnswer([cfg EXCEPT !.BaseURL = s_slash], req[p],
                                     req[p].path, ord))
       /\ \E ord \in HeaderOrders(cfg) :
            SameAnswer(resp[p],
                       PrimaryAnswer(cfg, req[p], cfg.BaseURL \o Tail(req[p].path), ord))

\* no rule and no global header of the configuration names Content-Encoding
ContentEncodingUnconfigured ==
  /\ \A g \in cfg.Headers : CanonicalHeaderKey(g[1]) # h_ContentEncoding
  /\ \A r \in cfg.HeadersPerPathRegex :
       \A h \in r.headers : CanonicalHeaderKey(h[1]) # h_ContentEncoding

\* the encodings the configuration disables
DisabledEncodings ==
  (IF cfg.BrotliDisabled THEN {"br"} ELSE {}) \cup
  (IF cfg.GzipDisabled THEN {"gzip"} ELSE {})

\* request r lists codings, and only disabled ones
ListsOnlyDisabled(r) ==
  /\ ListedCodings(r) # {}
  /\ ListedCodings(r) \subseteq {EncodingToken[e] : e \in DisabledEncodings}

\* C19: a disabled encoding is never the Content-Encoding of a response and
\* its sibling (.br for br, .gz for gzip) is never looked up as a variant; a
\* request that lists only disabled codings for a resource that is there gets
\* the uncompressed file, 200, without Content-Encoding.
C19_DisabledEncodingUnused ==
  \A p \in Procs :
    (Done(p) /\ ContentEncodingUnconfigured)
    => /\ \A e \in DisabledEncodings :
            /\ HeaderGet(resp[p].hdr, h_ContentEncoding) # e
            /\ \A i \in DOMAIN resp[p].probes :
                 resp[p].probes[i].kind = "sibling"
                 => ~HasSuffix(resp[p].probes[i].path, s_dot \o EncodingExt[e])
       /\ (resp[p].via # "reject" /\ ListsOnlyDisabled(req[p]) /\ Servable(rpath[p]))
          => /\ resp[p].status = 200
             /\ resp[p].body = At(cfg.RootDirs[FirstFileRoot(rpath[p])], rpath[p])
             /\ h_ContentEncoding \notin DOMAIN resp[p].hdr

\* C19 witness: brotli is disabled, the request lists br alone, the .br
\* sibling is there, and the uncompressed file was served
C19_DisabledSiblingIgnored ==
  \E p \in Procs :
    /\ Done(p) /\ resp[p].status = 200
    /\ cfg.BrotliDisabled
    /\ ListedCodings(req[p]) = {s_br}
    /\ IsFile(At(cfg.RootDirs[1], rpath[p] \o s_dot \o s_br))
    /\ resp[p].body = At(cfg.RootDirs[1], rpath[p])
    /\ h_ContentEncoding \notin DOMAIN resp[p].hdr

\* the files that hold the precompressed sibling of resource R for encoding e
SiblingFiles(R, e) ==
  {At(cfg.RootDirs[i], R \o s_dot \o EncodingExt[e]) : i \in DOMAIN cfg.RootDirs}

\* C20: when the configuration names no Content-Encoding header, a response
\* carries Content-Encoding exactly when it is a 200 whose body is a
\* precompressed sibling of the resource it serves, found for an encoding
\* that is enabled and that the request advertises; the value is br for the
\* .br sibling and gzip for the .gz sibling. A 404, a 500 and a 200 with the
\* resource's own file carry none.
C20_ContentEncodingMarksSibling ==
  \A p \in Procs :
    (Done(p) /\ ~resp[p].aborted /\ ContentEncodingUnconfigured)
    => /\ (h_ContentEncoding \in DOMAIN resp[p].hdr)
            <=> (/\ resp[p].status = 200
                 /\ \E e \in {"br", "gzip"} : resp[p].body \in SiblingFiles(resp[p].name, e))
       /\ \A e \in {"br", "gzip"} :
            (resp[p].status = 200 /\ resp[p].body \in SiblingFiles(resp[p].name, e))
            => /\ resp[p].hdr[h_ContentEncoding] = e
               /\ e \notin DisabledEncodings
               /\ Advertises(req[p], e)
       /\ resp[p].status \in {404, 500} => h_ContentEncoding \notin DOMAIN resp[p].hdr

\* C20 witness: a 200 whose body is the .gz sibling, marked gzip
C20_GzipSiblingMarked ==
  \E p \in Procs :
    /\ Done(p) /\ resp[p].status = 200
    /\ resp[p].body \in SiblingFiles(resp[p].name, "gzip")
    /\ HeaderGet(resp[p].hdr, h_ContentEncoding) = "gzip"

\* the Content-Type the resource path name is to be served with: the type of
\* its extension, else the type sniffed from its uncompressed file, else the
\* generic binary type
ExpectedType(name) ==
  IF TypeByExtension(FileExt(name)) # ""
  THEN TypeByExtension(FileExt(name))
  ELSE IF findFile(cfg, fs, name).ok
       THEN DetectContentType(findFile(cfg, fs, name).file)
       ELSE "application/octet-stream"

\* C21: every 200 response carries a non-empty Content-Type: the type of the
\* extension of the uncompressed path when it is mapped, otherwise the type
\* sniffed from the uncompressed file, and application/octet-stream when a
\* precompressed variant is served whose uncompressed twin is in no root.
C21_ContentTypeResolved ==
  \A p \in Procs :
    (Done(p) /\ resp[p].status = 200)
    => /\ HeaderGet(resp[p].hdr, h_ContentType) # ""
       /\ HeaderGet(resp[p].hdr, h_ContentType) = ExpectedType(resp[p].name)

\* the values the global headers give header k
GlobalValues(k) == {g[2] : g \in {h \in cfg.Headers : CanonicalHeaderKey(h[1]) = k}}

\* the response w delivers the index document or a precompressed sibling of it
IsIndexDocument(w) == w.body \in FilesOf(s_slashIndex)

\* C22: a 200 response for a resource other than the index document, for
\* which no matching rule and no global header sets Cache-Control, carries
\* Cache-Control: public, max-age=31536000, immutable; when a matching rule
\* sets Cache-Control the response carries a configured value, not the
\* default.
C22_DefaultImmutable ==
  \A p \in Procs :
    (Done(p) /\ resp[p].status = 200)
    => /\ (/\ RuleValues(resp[p].name, h_CacheControl) = {}
           /\ GlobalValues(h_CacheControl) = {}
           /\ ~IsIndexDocument(resp[p]))
          => HeaderGet(resp[p].hdr, h_CacheControl) = "public, max-age=31536000, immutable"
       /\ RuleValues(resp[p].name, h_CacheControl) # {}
          => HeaderGet(resp[p].hdr, h_CacheControl)
               \in RuleValues(resp[p].name, h_CacheControl) \cup GlobalValues(h_CacheControl)

\* C22 witness: a rule gave Cache-Control to a served resource that is not the
\* index document, and the response carries the rule's value
C22_RuleValueKept ==
  \E p \in Procs :
    /\ Done(p) /\ resp[p].status = 200
    /\ ~IsIndexDocument(resp[p])
    /\ RuleValues(resp[p].name, h_CacheControl) # {}
    /\ HeaderGet(resp[p].hdr, h_CacheControl) \in RuleValues(resp[p].name, h_CacheControl)

\* the header names the server sets itself before the configured headers
CoreHeaders == {h_ContentType, h_ContentEncoding}

\* C23: every 200 response carries each global header with its configured
\* value, unless a matching rule or the server itself has set that header for
\* the response before; in particular a global Cache-Control stands in the
\* place of the built-in default, for the index document as for any other
\* resource.
C23_GlobalHeadersApplied ==
  \A p \in Procs :
    (Done(p) /\ resp[p].status = 200)
    => \A g \in cfg.Headers :
         (/\ RuleValues(resp[p].name, CanonicalHeaderKey(g[1])) = {}
          /\ CanonicalHeaderKey(g[1]) \notin CoreHeaders)
         => /\ CanonicalHeaderKey(g[1]) \in DOMAIN resp[p].hdr
            /\ resp[p].hdr[CanonicalHeaderKey(g[1])] = g[2]

\* C23 witness: a served resource other than the index document carries the
\* global X-Test header and the global Cache-Control instead of the default
C23_GlobalCacheControlServed ==
  \E p \in Procs :
    /\ Done(p) /\ resp[p].status = 200
    /\ ~IsIndexDocument(resp[p])
    /\ RuleValues(resp[p].name, h_CacheControl) = {}
    /\ GlobalValues(h_CacheControl) = {"no-cache"}
    /\ HeaderGet(resp[p].hdr, h_CacheControl) = "no-cache"
    /\ GlobalValues(h_XTest) = {"test"}
    /\ HeaderGet(resp[p].hdr, h_XTest) = "test"

\* in this step handler p probes a suffix of the import fallback
SuffixProbeStep(p) == pc[p] = "probe" /\ resp'[p] # resp[p]

\* the path handler p probes next
ProbedPath(p) == rpath[p] \o ImportSuffixes[sfx[p]]

\* C24: after a cache miss for an eligible path P the suffixes .mjs, .js and
\* .cjs are probed in this order, each with its precompressed siblings. The
\* first that resolves is served and stored as the entry of P, and nothing is
\* probed after it; when all three miss the stage ends without a response;
\* a file-system error in a probe ends the probing and the request with 500.
C24_SuffixesProbedInOrder ==
  [][\A p \in Procs :
       /\ (pc[p] = "import" /\ pc'[p] = "probe")
          => (rpath[p] \notin DOMAIN cache /\ ProbedPath(p)' = rpath[p] \o s_mjs)
       /\ SuffixProbeStep(p)
          => /\ NewProbes(p) # <<>>
             /\ \A i \in DOMAIN NewProbes(p) : NewProbes(p)[i].path \in Variants(ProbedPath(p))
             /\ Failed([probes |-> NewProbes(p)])
                  => (pc'[p] = "done" /\ resp'[p].status = 500 /\ ~resp'[p].aborted)
             /\ resp'[p].status = 200
                  => (pc'[p] = "store" /\ resp'[p].name = ProbedPath(p) /\ sfx'[p] = sfx[p])
             /\ (resp'[p].status = 0 /\ ~resp'[p].aborted)
                  => IF ProbedPath(p) = rpath[p] \o s_mjs
                     THEN pc'[p] = "probe" /\ ProbedPath(p)' = rpath[p] \o s_js
                     ELSE IF ProbedPath(p) = rpath[p] \o s_js
                     THEN pc'[p] = "probe" /\ ProbedPath(p)' = rpath[p] \o s_cjs
                     ELSE pc'[p] = "spa"
       /\ pc[p] = "store"
          => (pc'[p] # pc[p]
              => /\ pc'[p] = "done"
                 /\ rpath[p] \in DOMAIN cache' /\ cache'[rpath[p]] = resp[p].name
                 /\ resp'[p] = resp[p])]_vars

\* the resource paths the import fallback can probe for path P
ImportCandidates(P) == UNION {Variants(P \o ImportSuffixes[i]) : i \in DOMAIN ImportSuffixes}

\* the import fallback is not to be tried for handler p: it is disabled, or
\* the path ends in a module suffix, or the path is not memoized and a
\* restriction pattern is configured that does not match it
ImportSkipped(p) ==
  \/ HasPrefix(cfg.ImportFallbackRegexp, s_disable)
  \/ \E i \in DOMAIN ImportSuffixes : HasSuffix(rpath[p], ImportSuffixes[i])
  \/ /\ rpath[p] \notin DOMAIN cache
     /\ cfg.ImportFallbackRegexp # <<>>
     /\ ~RegexMatch(cfg.ImportFallbackRegexp, rpath[p])

\* C25: the import-fallback stage of a request probes no file and leaves the
\* request unanswered for the next stage when the pattern begins with
\* "disable", when the resource path ends in .mjs, .js or .cjs, or when the
\* path is not memoized and a configured pattern does not match it; in every
\* other case (so for every unresolved path when the pattern is empty) it
\* probes: the memoized path, or the suffixes starting with .mjs.
C25_ImportEligibility ==
  [][\A p \in Procs :
       (pc[p] = "import" /\ pc'[p] # "import")
       => IF ImportSkipped(p)
          THEN /\ pc'[p] = "spa"
               /\ resp'[p] = resp[p]
               /\ \A i \in DOMAIN resp[p].probes :
                    resp[p].probes[i].path \notin ImportCandidates(rpath[p])
          ELSE \/ pc'[p] = "probe" /\ sfx'[p] = 1 /\ rpath[p] \notin DOMAIN cache
               \/ /\ rpath[p] \in DOMAIN cache
                  /\ NewProbes(p) # <<>>
                  /\ \A i \in DOMAIN NewProbes(p) :
                       NewProbes(p)[i].path \in Variants(cache[rpath[p]])]_vars

\* C25 witness: the restriction pattern does not match the path of a request
\* that is on its way to the SPA fallback, nothing was probed for it beyond
\* the path itself, and the file a .js probe would have found is there
C25_RestrictedPathSkipped ==
  \E p \in Procs :
    /\ pc[p] = "spa"
    /\ cfg.ImportFallbackRegexp # <<>>
    /\ ~HasPrefix(cfg.ImportFallbackRegexp, s_disable)
    /\ ~RegexMatch(cfg.ImportFallbackRegexp, rpath[p])
    /\ IsFile(At(cfg.RootDirs[1], rpath[p] \o s_js))
    /\ \A i \in DOMAIN resp[p].probes : resp[p].probes[i].path = rpath[p]

\* path k ends in none of the module suffixes
Suffixless(k) == \A i \in DOMAIN ImportSuffixes : ~HasSuffix(k, ImportSuffixes[i])

\* C26: the import-fallback cache only grows and holds only successes. Every
\* entry maps a path P that ends in none of .mjs, .js, .cjs to P plus one of
\* these suffixes; no step removes an entry; and the cache changes only when
\* a handler stores the path it has just served with 200 from a suffix probe
\* after a miss, so a resolution that failed stores nothing.
C26_CacheGrowsOnSuccess ==
  [][/\ \A k \in DOMAIN cache :
          /\ Suffixless(k)
          /\ \E i \in DOMAIN ImportSuffixes : cache[k] = k \o ImportSuffixes[i]
     /\ \A k \in DOMAIN cache : k \in DOMAIN cache'
     /\ cache' # cache
        => \E p \in Procs :
             /\ pc[p] = "store" /\ pc'[p] = "done"
             /\ resp[p].status = 200 /\ resp[p].via = "import" /\ resp[p].hit = <<>>
             /\ resp[p].probes[Len(resp[p].probes)].path \in Variants(resp[p].name)
             /\ \E i \in DOMAIN ImportSuffixes : resp[p].name = rpath[p] \o ImportSuffixes[i]
             /\ Suffixless(rpath[p])
             /\ DOMAIN cache' = (DOMAIN cache) \cup {rpath[p]}
             /\ cache'[rpath[p]] = resp[p].name
             /\ \A k \in (DOMAIN cache) \ {rpath[p]} : cache'[k] = cache[k]
     /\ \A p \in Procs :
          (pc[p] # "done" /\ pc'[p] = "done" /\ resp'[p].status # 200)
          => cache' = cache]_vars

\* C26 witness: a request whose three suffix probes all missed has ended with
\* 404 and left no entry, while the cache holds the entry of another path
C26_MissLeavesNoEntry ==
  \E p \in Procs :
    /\ Done(p) /\ resp[p].status = 404
    /\ rpath[p] \notin DOMAIN cache
    /\ \E i \in DOMAIN resp[p].probes : resp[p].probes[i].path = rpath[p] \o s_cjs
    /\ DOMAIN cache # {}

\* none of the gates of the SPA fallback refuses request r
FallbackOpen(r) ==
  /\ ~cfg.FallbackDisabled
  /\ ~ExclusionMatches(r)
  /\ (r.accept = <<>> \/ AcceptsHtml(r))

\* the lookup of the resource itself failed in this step of handler p
LookupFailed(p) ==
  \E i \in DOMAIN NewProbes(p) : NewProbes(p)[i].kind = "file" /\ NewProbes(p)[i].failed

\* C27: an SPA-fallback stage that is not skipped looks up /index.html with
\* its precompressed siblings and nothing else, and the outcome it returns is
\* the answer of the request: 200 with the index document when it found one,
\* 404 when no root holds an index document, 500 when its lookup of
\* /index.html returned an error. The fallbacks counter is added to once in
\* the step that answers 200 through this stage and in no other step, so at
\* the end of a request it stands at one exactly when the request was
\* answered 200 through this stage.
C27_FallbackOutcomePropagates ==
  [][\A p \in Procs :
       /\ (FallbackStep(p) /\ FallbackOpen(req[p]))
          => /\ NewProbes(p) # <<>>
             /\ \A i \in DOMAIN NewProbes(p) : NewProbes(p)[i].path \in Variants(s_slashIndex)
             /\ resp'[p].via = "spa"
             /\ ~resp'[p].aborted
                  => /\ resp'[p].writes = 1
                     /\ resp'[p].status \in {200, 404, 500}
                     /\ resp'[p].status = 200
                          <=> (\E f \in FilesOf(s_slashIndex) : IsFile(f)) /\ ~LookupFailed(p)
                     /\ resp'[p].status = 200
                          => (resp'[p].body \in FilesOf(s_slashIndex) /\ IsFile(resp'[p].body)
                              /\ resp'[p].name = s_slashIndex)
                     /\ resp'[p].status = 404
                          <=> (\A f \in FilesOf(s_slashIndex) : ~IsFile(f)) /\ ~LookupFailed(p)
                     /\ resp'[p].status = 500 <=> LookupFailed(p)
       /\ SignalCount(resp'[p], "fallbacks") =
            IF resp'[p].status = 200 /\ resp'[p].via = "spa" THEN 1 ELSE 0
       /\ SignalCount(resp'[p], "fallbacks") # SignalCount(resp[p], "fallbacks")
          => (FallbackStep(p) \/ pc'[p] = "idle")]_vars

\* C27 witness: a request for a path that nothing resolves was answered 200
\* with the index document by the SPA fallback and counted once
C27_FallbackServedAndCounted ==
  \E p \in Procs :
    /\ Done(p) /\ resp[p].status = 200 /\ resp[p].via = "spa"
    /\ resp[p].body \in IndexFiles
    /\ rpath[p] # s_slashIndex
    /\ SignalCount(resp[p], "fallbacks") = 1

\* sub occurs somewhere in s
Contains(s, sub) ==
  \E i \in 0..(Len(s) - Len(sub)) : SubSeq(s, i + 1, i + Len(sub)) = sub

\* some value of the Accept header of r holds text/html somewhere
MentionsHtml(r) == \E i \in DOMAIN r.accept : Contains(r.accept[i], s_textHtml)

\* C28: for a path that nothing resolved, with fallback enabled, no matching
\* no-fallback pattern and an index document in the root, the index document
\* is served whenever the Accept header holds text/html anywhere in its value
\* or is not present.
C28_AcceptContainingHtmlFallsBack ==
  [][\A p \in Procs :
       (/\ FallbackStep(p)
        /\ ~cfg.FallbackDisabled
        /\ ~ExclusionMatches(req[p])
        /\ (req[p].accept = <<>> \/ MentionsHtml(req[p]))
        /\ Servable(s_slashIndex))
       => IndexServed(p)]_vars

\* a reason to shut down is there: an interrupt or SIGTERM in the channel, or
\* the context is cancelled
ShutdownRequested ==
  \/ run.ctxDone
  \/ \E i \in DOMAIN run.sigch : run.sigch[i] \in {"interrupt", "sigterm"}

\* C29: once an interrupt or SIGTERM is in the signal channel, or the context
\* of run is cancelled, run leaves its loop, calls httpServer.Shutdown and
\* returns; Shutdown is never called a second time and run does not return
\* without having called it once, whichever reason came first and also when
\* both are there.
C29_GracefulShutdown ==
  /\ [](run.shutdowns <= 1)
  /\ [](run.at = "returned" => run.shutdowns = 1)
  /\ [](run.at # "loop" => run.stoppedBy # "")
  /\ ShutdownRequested ~> (run.at = "returned")

\* C29 witness: run has returned after one Shutdown, stopped by a signal
\* while its context was cancelled as well
C29_StoppedWithBothReasons ==
  /\ run.at = "returned"
  /\ run.shutdowns = 1
  /\ run.stoppedBy = "signal"
  /\ run.ctxDone

\* path without the base url, as the claim states it
Stripped(path) ==
  IF cfg.BaseURL # <<>> /\ HasPrefix(path, cfg.BaseURL)
  THEN SubSeq(path, Len(cfg.BaseURL) + 1, Len(path))
  ELSE IF cfg.BaseURL # <<>> /\ path \o s_slash = cfg.BaseURL
       THEN <<>>
       ELSE path

\* the resource path the claim gives a request path
ExpectedResourcePath(path) == IF Stripped(path) = <<>> THEN s_index ELSE Stripped(path)

\* request r asks for the root of the application
RootRequest(r) ==
  IF cfg.BaseURL = <<>> THEN r.path = s_slash
  ELSE r.path = cfg.BaseURL \/ r.path \o s_slash = cfg.BaseURL

\* C30: the resource path of a request that is not rejected is its path
\* without the base url prefix, empty when path plus "/" is the base url,
\* the path itself when the base url is empty or does not match and may be
\* skipped, and index.html in place of an empty result; a request for the
\* root of the application is therefore answered by primary resolution with
\* the index document, under every base url, the empty one included.
C30_PathNormalized ==
  \A p \in Procs :
    (pc[p] # "idle" /\ resp[p].via # "reject")
    => /\ rpath[p] = ExpectedResourcePath(req[p].path)
       /\ (Done(p) /\ RootRequest(req[p]) /\ Servable(s_slashIndex))
          => /\ resp[p].status = 200
             /\ resp[p].via = "primary"
             /\ resp[p].body \in IndexFiles

\* some exclusion pattern matches the resource path of handler p
ExclusionMatchesResource(p) ==
  \E i \in DOMAIN cfg.NotFoundRegexs : RegexMatch(cfg.NotFoundRegexs[i], rpath[p])

\* C31: the exclusion patterns are matched against the resource path the
\* path normalisation produced, not against the path of the request: with
\* fallback enabled and an Accept header that lets the fallback pass, an
\* unresolved request is refused exactly when a pattern matches its resource
\* path, so two requests with the same resource path are decided alike.
C31_ExclusionOnResourcePath ==
  [][\A p \in Procs :
       (/\ FallbackStep(p)
        /\ ~cfg.FallbackDisabled
        /\ (req[p].accept = <<>> \/ AcceptsHtml(req[p])))
       => (Refused(p) <=> ExclusionMatchesResource(p))]_vars

\* the values the rules give header k, whatever they match
AllRuleValues(k) ==
  {kv[2] : kv \in {h \in UNION {r.headers : r \in cfg.HeadersPerPathRegex} :
                     CanonicalHeaderKey(h[1]) = k}}

\* the header names the rules name
RuleKeys == {CanonicalHeaderKey(h[1]) : h \in UNION {r.headers : r \in cfg.HeadersPerPathRegex}}

\* the values the server gives header k without a rule: a global header's, or
\* the built-in Cache-Control, or the headers of its own error responses
UnruledValues(k) ==
  GlobalValues(k) \cup
  (IF k = h_CacheControl THEN {"public, max-age=31536000, immutable", "no-cache"} ELSE {}) \cup
  (IF k = h_ContentType THEN {"text/plain; charset=utf-8"} ELSE {}) \cup
  (IF k = h_XContentTypeOptions THEN {"nosniff"} ELSE {})

\* the resource path whose stream the stage that answered 200 resolved: the
\* suffixed or memoized path after the import fallback, /index.html after
\* the SPA fallback, the resource path of the request otherwise
ResolvedPath(p) ==
  IF resp[p].via = "spa" THEN s_slashIndex
  ELSE IF resp[p].via = "import"
       THEN (IF resp[p].hit # <<>> THEN resp[p].hit ELSE rpath[p] \o ImportSuffixes[sfx[p]])
       ELSE rpath[p]

SiblingThere(R, e) == \E f \in SiblingFiles(R, e) : IsFile(f)

\* C33: brotli comes before gzip. When both encodings are enabled, the
\* Accept-Encoding header lists br and gzip (in any order, on one line or on
\* several) and both P.br and P.gz are regular files, a request for P during
\* which no file-system call fails is answered with P.br, Content-Encoding
\* br; and a response carries the gzip sibling only when brotli is disabled,
\* br is not listed or P.br is in no root.
C33_BrotliBeforeGzip ==
  \A p \in Procs :
    (Done(p) /\ ~Failed(resp[p]) /\ ContentEncodingUnconfigured)
    => /\ (/\ resp[p].via = "primary"
           /\ ~cfg.BrotliDisabled /\ ~cfg.GzipDisabled
           /\ {s_br, s_gzip} \subseteq ListedCodings(req[p])
           /\ SiblingThere(rpath[p], "br") /\ SiblingThere(rpath[p], "gzip"))
          => /\ resp[p].status = 200
             /\ resp[p].body \in SiblingFiles(rpath[p], "br")
             /\ HeaderGet(resp[p].hdr, h_ContentEncoding) = "br"
       /\ (resp[p].status = 200 /\ resp[p].body \in SiblingFiles(resp[p].name, "gzip"))
          => \/ cfg.BrotliDisabled
             \/ s_br \notin ListedCodings(req[p])
             \/ ~SiblingThere(resp[p].name, "br")

\* the rules that match resource path name and give header k
MatchingRules(name, k) ==
  {r \in cfg.HeadersPerPathRegex :
     /\ RegexMatch(r.rx, name)
     /\ \E h \in r.headers : CanonicalHeaderKey(h[1]) = k}

\* C34: when two or more rules match the resolved path of a 200 response and
\* give the same header, the response carries for that header the value of
\* one of these rules, not the value of a global header and not the built-in
\* default, in whatever order the rules were visited.
C34_CollidingRulesKeepRuleValue ==
  \A p \in Procs :
    (Done(p) /\ resp[p].status = 200)
    => \A k \in RuleKeys :
         Cardinality(MatchingRules(resp[p].name, k)) >= 2
         => HeaderGet(resp[p].hdr, k) \in RuleValues(resp[p].name, k)

\* the absolute path f is the directory root or lies under it
Inside(f, root) == f = root \/ HasPrefix(f, root \o s_slash)

\* the absolute paths findFile opens for resource path R, one in each root
OpenedFor(R) == {PathJoin(cfg.RootDirs[i], R) : i \in DOMAIN cfg.RootDirs}

\* C35: every file the lookup opens for a request and the file whose bytes a
\* response carries lie inside one of the configured roots, for every request
\* path, ".." segments included, and every base url setting.
C35_RootConfinement ==
  \A p \in Procs :
    /\ \A i \in DOMAIN resp[p].probes :
         \A f \in OpenedFor(resp[p].probes[i].path) :
           \E k \in DOMAIN cfg.RootDirs : Inside(f, cfg.RootDirs[k])
    /\ resp[p].status = 200
         => \E k \in DOMAIN cfg.RootDirs : Inside(resp[p].body, cfg.RootDirs[k])

\* The handler without importFallbackMap, as one function of the request and
\* the file system: the suffixes are probed for every eligible request.

\* the suffix probes of importFallback from suffix number i on
RECURSIVE ReprobeFrom(_, _, _, _, _, _)
ReprobeNext(c, files, P, r, ord, i, res) ==
  IF Ended(res) \/ i = Len(ImportSuffixes) THEN res
  ELSE ReprobeFrom(c, files, P, r, ord, [i |-> i + 1, hdr |-> res.hdr, probes |-> res.probes])

ReprobeFrom(c, files, P, r, ord, at) ==
  ReprobeNext(c, files, P, r, ord, at.i,
              findAndServeEncoded(c, files, at.hdr, P \o ImportSuffixes[at.i], r, ord, at.probes))

\* the SPA fallback and the 404 of the handler, after w
ReprobeSpa(c, files, r, ord, w) ==
  IF FallbackSkipped(c, r) THEN NotFound(w, "spa")
  ELSE AfterLast(w, findAndServeEncoded(c, files, w.hdr, s_slashIndex, r, ord, w.probes), "spa")

\* the handler after its import stage returned res
ReprobeAfterImport(c, files, r, ord, w, res) ==
  IF Ended(res) THEN AfterCall(w, res, "import")
  ELSE ReprobeSpa(c, files, r, ord, AfterCall(w, res, "import"))

\* the import stage without the cache, and what follows it
ReprobeImport(c, files, P, r, ord, w) ==
  IF /\ ImportEligible(c, P)
     /\ (c.ImportFallbackRegexp = <<>> \/ RegexMatch(c.ImportFallbackRegexp, P))
  THEN ReprobeAfterImport(c, files, r, ord, w,
         ReprobeFrom(c, files, P, r, ord, [i |-> 1, hdr |-> w.hdr, probes |-> w.probes]))
  ELSE ReprobeSpa(c, files, r, ord, w)

\* the handler after primary resolution returned res
ReprobeAfterPrimary(c, files, P, r, ord, res) ==
  IF Ended(res) THEN AfterCall(FreshWriter, res, "primary")
  ELSE ReprobeImport(c, files, P, r, ord, AfterCall(FreshWriter, res, "primary"))

ReprobeResolve(c, files, n, r, ord) ==
  IF n.rejected THEN NotFound(FreshWriter, "reject")
  ELSE ReprobeAfterPrimary(c, files, n.resourcePath, r, ord,
         findAndServeEncoded(c, files, <<>>, n.resourcePath, r, ord, <<>>))

\* the response to request r of a server that always probes again
ReprobeAnswer(c, files, r, ord) == ReprobeResolve(c, files, Normalize(c, r.path), r, ord)

\* two responses are the same for the client
SameResponse(w, v) ==
  /\ w.status = v.status /\ w.aborted = v.aborted
  /\ w.body = v.body
  /\ w.status # 0 => w.hdr = v.hdr

\* C36: the import-fallback cache changes no response. While no file has
\* changed since the server started, every finished request has the status,
\* headers and body that a server without the cache, probing the suffixes
\* again for every request, gives the same request.
C36_CacheIsTransparent ==
  \A p \in Procs :
    (Done(p) /\ nchurn = 0)
    => \E ord \in HeaderOrders(cfg) :
         SameResponse(resp[p], ReprobeAnswer(cfg, fs, req[p], ord))

\* in this step handler p takes a request and runs primary resolution
ArrivalStep(p) == pc[p] = "idle" /\ pc'[p] # "idle"

\* C37: the cache is consulted only after primary resolution of the
\* requested path returned not-found without an error: a handler in its
\* import stage has written nothing and its lookup of the path itself did
\* not fail. So a request for a path P that is a regular file in some root is
\* answered by primary resolution with P (or a precompressed sibling of P)
\* also when the cache holds an entry for P; the entry is not used.
C37_ExactFileBeatsCache ==
  [][\A p \in Procs :
       /\ pc'[p] \in {"import", "probe"}
          => /\ resp'[p].status = 0 /\ resp'[p].writes = 0 /\ ~resp'[p].aborted
             /\ resp'[p].via = ""
             /\ \E i \in DOMAIN resp'[p].probes :
                  /\ resp'[p].probes[i].kind = "file"
                  /\ resp'[p].probes[i].path = rpath'[p]
                  /\ ~resp'[p].probes[i].failed
       /\ (/\ ArrivalStep(p)
           /\ rpath'[p] \in DOMAIN cache
           /\ Servable(rpath'[p]))
          => /\ pc'[p] = "done"
             /\ resp'[p].status = 200
             /\ resp'[p].via = "primary"
             /\ resp'[p].hit = <<>>
             /\ resp'[p].name = rpath'[p]
             /\ resp'[p].body \in FilesOf(rpath'[p])
             /\ \A i \in DOMAIN resp'[p].probes :
                  resp'[p].probes[i].path \in Variants(rpath'[p])]_vars

\* C37 witness: a request for a path was answered with the file of that very
\* path while the cache held an entry for the path whose file is there too
C37_ExactFileServedDespiteEntry ==
  \E p \in Procs :
    /\ Done(p) /\ resp[p].status = 200 /\ resp[p].via = "primary"
    /\ rpath[p] \in DOMAIN cache
    /\ IsFile(At(cfg.RootDirs[1], cache[rpath[p]]))
    /\ resp[p].body = At(cfg.RootDirs[1], rpath[p])

\* no root holds anything at resource path R
Absent(R) == \A i \in DOMAIN cfg.RootDirs : KindAt(fs, At(cfg.RootDirs[i], R)) = "none"

\* the enabled encodings that request r advertises and whose sibling of R is
\* a regular file in some root
Qualifying(R, r) ==
  {e \in Range(Encodings(cfg)) : Advertises(r, e) /\ SiblingThere(R, e)}

\* the request lists no coding whose sibling of R is there
ListsNoSiblingOf(R, r) ==
  \A e \in {"br", "gzip"} :
    SiblingThere(R, e) => (~Advertises(r, e) /\ EncodingToken[e] \notin ListedCodings(r))

TakesSignal == run.at = "loop" /\ run.sigch # <<>> /\ run'.sigch = Tail(run.sigch)

\* C39: run leaves its loop only in a step that takes an interrupt or a
\* SIGTERM from the channel or that finds the context cancelled; Shutdown is
\* called only after the loop was left, and run returns only after Shutdown
\* was called. A step that takes any other signal leaves run in its loop with
\* the server as it was, and a ListenAndServe that returned an error changes
\* nothing in run: it keeps waiting in the loop.
C39_ShutdownOnlyOnTrigger ==
  /\ []((run.at # "loop" \/ run.shutdowns > 0)
        => (run.ctxDone \/ run.stoppedBy = "signal"))
  /\ [][/\ (run.at = "loop" /\ run'.at # "loop")
           => /\ run'.at = "left" /\ run'.shutdowns = run.shutdowns
              /\ \/ TakesSignal /\ Head(run.sigch) \in {"interrupt", "sigterm"}
                 \/ run.ctxDone
        /\ run'.shutdowns # run.shutdowns => (run.at = "left" /\ run'.at = "shutdown")
        /\ (run.at # "returned" /\ run'.at = "returned")
           => (run.at = "shutdown" /\ run.shutdowns = 1)
        /\ (TakesSignal /\ Head(run.sigch) \notin {"interrupt", "sigterm"})
           => (run'.at = "loop" /\ run'.srv = run.srv /\ run'.shutdowns = 0)
        /\ (run.srv # "failed" /\ run'.srv = "failed")
           => (run'.at = run.at /\ run'.shutdowns = run.shutdowns
               /\ run'.stoppedBy = run.stoppedBy)]_vars

\* C39 witness: ListenAndServe has failed, a signal that is no reason to stop
\* was taken from the channel, nothing asks for a shutdown, and run is
\* waiting in its loop with Shutdown not called
C39_StillWaiting ==
  /\ run.srv = "failed"
  /\ run.ignored
  /\ ~ShutdownRequested
  /\ run.at = "loop"
  /\ run.shutdowns = 0

====
